---- MODULE Spec2Model ----
(***************************************************************************)
(* The persistent AI worker of Youtube2Podcast (scripts/worker_ai.py) with *)
(* the speech-synthesis wrapper it uses (scripts/tts_utils.py).            *)
(*                                                                         *)
(* Python strings are sequences of tokens.  A token is a record with a     *)
(* kind t, a name s and a length len (the number of characters it stands   *)
(* for): a word (a run of characters holding neither ". " nor "|" and not  *)
(* starting or ending with white space), one space, a full stop that no    *)
(* space follows, the two characters ". ", or the character "|".  The      *)
(* string operations of the code (len, +, strip, replace, split, join,     *)
(* slicing) are the operators below; a string is kept in normal form: no   *)
(* full stop token is directly followed by a space token.                  *)
(***************************************************************************)
EXTENDS Integers, Sequences, FiniteSets, TLC

VARIABLES
    pc,                 \* where main() stands
    exit_code,          \* "running", "0" (main returned) or "1" (sys.exit(1))
    whisper_model,      \* worker_ai globals: the capability handles
    whisper_model_en,
    translator,
    text_generator,
    tts_engine,
    tts_instance,       \* tts_utils._tts_instance: <<>> (None) or <<instance>>
    platform,           \* what the probes is_macos / is_piper_available / is_espeak_available answer
    lines_read,         \* number of lines taken from stdin
    line,               \* the line of the current loop iteration
    job,                \* json.loads(line) of the current iteration
    locals,             \* process_job's local values
    result,             \* the value process_job returned, <<>> before
    exception,          \* the message of the exception being raised, <<>> when none is
    written,            \* the records printed on stdout by the current loop iteration
                        \* (by load_models before the first iteration), in order
    job_calls,          \* the capability calls made by the current loop iteration, in order
    order               \* the order of non-blank lines read and JobResults written, by index

vars == <<pc, exit_code, whisper_model, whisper_model_en, translator, text_generator,
          tts_engine, tts_instance, platform, lines_read, line, job, locals, result,
          exception, written, job_calls, order>>

handles == <<whisper_model, whisper_model_en, translator, text_generator, tts_engine>>

(***************************************************************************)
(* Bounds of the model.                                                    *)
(***************************************************************************)
MaxLines == 3           \* lines the model reads from stdin before end of input

(***************************************************************************)
(* Python values.                                                          *)
(***************************************************************************)
None == "<None>"

\* str(v) as an f-string prints it
Str(v) == IF v = None THEN "None" ELSE v

\* dict.get(key, default)
Get(d, key, default) == IF key \in DOMAIN d THEN d[key] ELSE default

(***************************************************************************)
(* Strings.                                                                *)
(***************************************************************************)
\* src is empty but for a word the translation model produced: there it is the
\* chunk the word translates
W(name, n) == [t |-> "w", s |-> name, len |-> n, src |-> <<>>]
SP == [t |-> "sp", s |-> " ", len |-> 1, src |-> <<>>]
DOT == [t |-> "dot", s |-> ".", len |-> 1, src |-> <<>>]
DELIM == [t |-> "delim", s |-> ". ", len |-> 2, src |-> <<>>]
BAR == [t |-> "bar", s |-> "|", len |-> 1, src |-> <<>>]
\* the markup generate_podcast_script removes: "<p>", "</p>", "<br>"
TAG(name, n) == [t |-> "tag", s |-> name, len |-> n, src |-> <<>>]

RECURSIVE StrLen(_)
StrLen(str) == IF str = <<>> THEN 0 ELSE Head(str).len + StrLen(Tail(str))

\* normal form: "." followed by " " is the token ". "
RECURSIVE Norm(_)
Norm(str) ==
    IF Len(str) < 2 THEN str
    ELSE IF str[1] = DOT /\ str[2] = SP THEN <<DELIM>> \o Norm(Tail(Tail(str)))
    ELSE <<str[1]>> \o Norm(Tail(str))

\* a + b
Concat(a, b) == Norm(a \o b)

RECURSIVE LStrip(_)
LStrip(str) ==
    IF str # <<>> /\ Head(str) = SP THEN LStrip(Tail(str)) ELSE str

RECURSIVE RStrip(_)
RStrip(str) ==
    IF str = <<>> THEN str
    ELSE LET last == str[Len(str)]
             init == SubSeq(str, 1, Len(str) - 1)
         IN  IF last = SP THEN RStrip(init)
             ELSE IF last = DELIM THEN Append(init, DOT)
             ELSE str

\* str.strip()
Strip(str) == RStrip(LStrip(str))

\* str.strip() == "": only white space
IsBlank(str) == \A i \in 1..Len(str) : str[i] = SP

\* text.replace(". ", ".|").split("|")
RECURSIVE SplitFrom(_, _, _)
SplitFrom(str, cur, acc) ==
    IF str = <<>> THEN Append(acc, cur)
    ELSE IF Head(str) = DELIM THEN SplitFrom(Tail(str), <<>>, Append(acc, Append(cur, DOT)))
    ELSE IF Head(str) = BAR THEN SplitFrom(Tail(str), <<>>, Append(acc, cur))
    ELSE SplitFrom(Tail(str), Append(cur, Head(str)), acc)

SplitSentences(text) == SplitFrom(text, <<>>, <<>>)

\* a faulty variant: "".join(parts)
RECURSIVE JoinNoSpace(_)
JoinNoSpace(parts) ==
    IF parts = <<>> THEN <<>>
    ELSE Concat(parts[1], JoinNoSpace(Tail(parts)))

\* " ".join(parts)
RECURSIVE JoinSpace(_)
JoinSpace(parts) ==
    IF parts = <<>> THEN <<>>
    ELSE IF Len(parts) = 1 THEN parts[1]
    ELSE Concat(Concat(parts[1], <<SP>>), JoinSpace(Tail(parts)))

\* str[:n]
RECURSIVE Take(_, _)
Take(str, n) ==
    IF n <= 0 \/ str = <<>> THEN <<>>
    ELSE LET h == Head(str) IN
         IF h.len <= n THEN <<h>> \o Take(Tail(str), n - h.len)
         ELSE IF h.t = "delim" THEN <<DOT>>
         ELSE <<[h EXCEPT !.len = n]>>

\* str.replace('<p>', '').replace('</p>', '').replace('<br>', ' ')
RECURSIVE ReplaceTags(_)
ReplaceTags(str) ==
    IF str = <<>> THEN <<>>
    ELSE LET h == Head(str) IN
         (IF h.t = "tag" /\ h.s \in {"<p>", "</p>"} THEN <<>>
          ELSE IF h.t = "tag" /\ h.s = "<br>" THEN <<SP>>
          ELSE <<h>>) \o ReplaceTags(Tail(str))

RemoveMarkup(str) == Norm(ReplaceTags(str))

\* ". " as the two characters it is
RECURSIVE Expand(_)
Expand(str) ==
    IF str = <<>> THEN <<>>
    ELSE (IF Head(str) = DELIM THEN <<DOT, SP>> ELSE <<Head(str)>>) \o Expand(Tail(str))

RECURSIVE SqueezeSpaces(_)
SqueezeSpaces(str) ==
    IF Len(str) < 2 THEN str
    ELSE IF str[1] = SP /\ str[2] = SP THEN SqueezeSpaces(Tail(str))
    ELSE <<str[1]>> \o SqueezeSpaces(Tail(str))

\* ' '.join(str.split())
NormalizeSpaces(str) == Norm(Strip(SqueezeSpaces(Expand(str))))

(***************************************************************************)
(* Chunking: the loop of worker_ai.translate_text and of                   *)
(* TextToSpeech._split_text.                                               *)
(***************************************************************************)
MaxChunkLength == 400
MAX_CHARS == 2000

\* a faulty variant of the loop: the test of line 144 forgets the current chunk
RECURSIVE ChunkLoopSentenceOnly(_, _, _, _)
ChunkLoopSentenceOnly(sentences, max_chars, chunks, current) ==
    IF sentences = <<>>
    THEN IF current # <<>> THEN Append(chunks, Strip(current)) ELSE chunks
    ELSE LET s == Head(sentences) IN
         IF StrLen(s) < max_chars
         THEN ChunkLoopSentenceOnly(Tail(sentences), max_chars, chunks,
                                    Concat(current, Concat(s, <<SP>>)))
         ELSE ChunkLoopSentenceOnly(Tail(sentences), max_chars,
                        IF current # <<>> THEN Append(chunks, Strip(current)) ELSE chunks,
                        Concat(s, <<SP>>))

RECURSIVE ChunkLoop(_, _, _, _)
ChunkLoop(sentences, max_chars, chunks, current) ==
    IF sentences = <<>>
    THEN IF current # <<>> THEN Append(chunks, Strip(current)) ELSE chunks
    ELSE LET s == Head(sentences) IN
         IF StrLen(current) + StrLen(s) < max_chars
         THEN ChunkLoop(Tail(sentences), max_chars, chunks,
                        Concat(current, Concat(s, <<SP>>)))
         ELSE ChunkLoop(Tail(sentences), max_chars,
                        IF current # <<>> THEN Append(chunks, Strip(current)) ELSE chunks,
                        Concat(s, <<SP>>))

\* the chunks of translate_text
TranslateChunks(text) == ChunkLoop(SplitSentences(text), MaxChunkLength, <<>>, <<>>)

\* TextToSpeech._split_text(text, max_chars)
SplitText(text, max_chars) ==
    IF StrLen(text) <= max_chars THEN <<text>>
    ELSE ChunkLoop(SplitSentences(text), max_chars, <<>>, <<>>)

\* a faulty variant of line 155: no chunk is left out
AllChunks(chunks) == chunks

\* [c for c in chunks if c.strip()]
RECURSIVE ValidChunks(_)
ValidChunks(chunks) ==
    IF chunks = <<>> THEN <<>>
    ELSE (IF IsBlank(Head(chunks)) THEN <<>> ELSE <<Head(chunks)>>) \o ValidChunks(Tail(chunks))

\* process_translation.translate_text, lines 91-115: the chunks its loop calls
\* the translation model with (`if chunk:`)
OneShotTranslated(text_en) ==
    SelectSeq(ChunkLoop(SplitSentences(text_en), MaxChunkLength, <<>>, <<>>),
              LAMBDA chunk : chunk # <<>>)

(***************************************************************************)
(* tts_utils: voices and backend selection.                                *)
(***************************************************************************)
PIPER_VOICES == {"es_ES-davefx", "es_ES-mls_10246", "es_MX-ald", "es_MX-claude"}

VOICE_MIGRATION ==
    [v \in {"es-ES-AlvaroNeural", "es-ES-ElviraNeural", "es-MX-JorgeNeural",
            "es-MX-DaliaNeural", "es-AR-TomasNeural", "es-AR-ElenaNeural",
            "es-CO-GonzaloNeural", "es-CO-SalomeNeural"} |->
        CASE v = "es-ES-AlvaroNeural" -> "es_ES-davefx"
          [] v = "es-ES-ElviraNeural" -> "es_ES-mls_10246"
          [] v = "es-MX-JorgeNeural" -> "es_MX-ald"
          [] v = "es-MX-DaliaNeural" -> "es_MX-claude"
          [] v = "es-AR-TomasNeural" -> "es_ES-davefx"
          [] v = "es-AR-ElenaNeural" -> "es_ES-mls_10246"
          [] v = "es-CO-GonzaloNeural" -> "es_ES-davefx"
          [] v = "es-CO-SalomeNeural" -> "es_ES-mls_10246"]

DEFAULT_VOICE == "es_ES-davefx"

\* a faulty variant without the test of line 76
normalize_voice_unchecked(voice) == Get(VOICE_MIGRATION, voice, voice)

normalize_voice(voice) ==
    LET voice_id == Get(VOICE_MIGRATION, voice, voice)
    IN  IF voice_id \notin PIPER_VOICES THEN DEFAULT_VOICE ELSE voice_id

\* the platforms the model runs on: the answers of the three probes
Platforms ==
    {[macos |-> TRUE, piper |-> FALSE, espeak |-> FALSE],
     [macos |-> FALSE, piper |-> TRUE, espeak |-> TRUE],
     [macos |-> FALSE, piper |-> FALSE, espeak |-> TRUE],
     [macos |-> FALSE, piper |-> FALSE, espeak |-> FALSE]}

get_tts_backend(p) ==
    IF p.macos THEN "pyttsx3"
    ELSE IF p.piper THEN "piper-tts"
    ELSE IF p.espeak THEN "espeak"
    ELSE "none"

\* TextToSpeech.__init__: nothing is loaded yet
NewTextToSpeech(voice, p) ==
    [voice |-> normalize_voice(voice), backend |-> get_tts_backend(p),
     engine |-> FALSE, piper_voice |-> FALSE, espeak_cmd |-> FALSE]

\* the engine TextToSpeech.load picks on platform p: "none" when it raises
\* RuntimeError for want of any backend
LoadChoice(p) ==
    IF p.macos THEN "pyttsx3"
    ELSE IF p.piper THEN "piper"
    ELSE IF p.espeak THEN "espeak"
    ELSE "none"

\* the instance after a load() that picked `choice` and did not raise
Loaded(inst, choice) ==
    [inst EXCEPT !.engine = (choice = "pyttsx3"),
                 !.piper_voice = (choice = "piper"),
                 !.espeak_cmd = (choice = "espeak")]

\* a faulty variant of lines 176-183: synthesize asks the probes again
SynthesizeChoiceProbing(inst, p) ==
    IF p.macos THEN "pyttsx3"
    ELSE IF p.piper THEN "piper"
    ELSE IF p.espeak THEN "espeak"
    ELSE "none"

\* the branch TextToSpeech.synthesize takes on platform p: "none" raises RuntimeError
SynthesizeChoice(inst, p) ==
    IF p.macos THEN "pyttsx3"
    ELSE IF inst.piper_voice THEN "piper"
    ELSE IF inst.espeak_cmd THEN "espeak"
    ELSE "none"

(***************************************************************************)
(* worker_ai: the records written on stdout.                               *)
(***************************************************************************)
\* log_status: {"status", "message"}
StatusRecord(status, message) == [status |-> status, message |-> message]

\* log_progress: {"stage", "percent", "message"}; a message is the sequence of
\* the parts of its f-string
ProgressRecord(stage, percent, message) ==
    [stage |-> stage, percent |-> percent, message |-> message]

IsStatus(r) == "status" \in DOMAIN r
IsProgress(r) == "percent" \in DOMAIN r
IsResult(r) == "success" \in DOMAIN r

\* what a called function hands back: the value it returned or the message of
\* the exception it raised, the progress records it printed on the way and the
\* capability calls it made
Returned(value, progress, calls) ==
    [raised |-> FALSE, value |-> value, progress |-> progress, calls |-> calls]
Raised(message, progress, calls) ==
    [raised |-> TRUE, error |-> message, progress |-> progress, calls |-> calls]

(***************************************************************************)
(* worker_ai.generate_podcast_script.                                      *)
(***************************************************************************)
MaxArticles == 5

\* the names of the fixed phrases are written without accents and inverted
\* marks; len is the length of the phrase in the source
Intro ==
    <<W("Buenos dias a todos los oyentes! Bienvenidos a su resumen de noticias del dia", 78),
      DELIM, W("Hoy les traemos las historias mas relevantes", 44),
      DELIM, W("Comencemos", 10), DOT>>

Outro ==
    <<W("Y eso es todo por hoy", 21),
      DELIM, W("Gracias por acompanarnos en este resumen informativo", 52),
      DELIM, W("Les deseamos un excelente dia y recuerden mantenerse informados", 63),
      DELIM, W("Hasta la proxima!", 18)>>

Transitions ==
    <<W("Continuando con las noticias,", 29), W("En otras noticias,", 18),
      W("Tambien les informamos que", 26), W("Pasando a otro tema,", 20),
      W("Y finalmente,", 13)>>

SummaryLimit == 300
SummaryKeep == 297

IsDict(article) == "nondict" \notin DOMAIN article

\* a faulty variant of lines 224-225: the marker is added to the first 300 characters
CleanSummaryLong(article) ==
    LET raw == Strip(Get(article, "summary", Get(article, "description", <<>>)))
        summary == NormalizeSpaces(RemoveMarkup(raw))
    IN  IF StrLen(summary) > SummaryLimit
        THEN Concat(Take(summary, SummaryLimit), <<DOT, DOT, DOT>>)
        ELSE summary

\* the summary of an article as the script uses it (lines 217-225)
CleanSummary(article) ==
    LET raw == Strip(Get(article, "summary", Get(article, "description", <<>>)))
        summary == NormalizeSpaces(RemoveMarkup(raw))
    IN  IF StrLen(summary) > SummaryLimit
        THEN Concat(Take(summary, SummaryKeep), <<DOT, DOT, DOT>>)
        ELSE summary

Min(a, b) == IF a < b THEN a ELSE b

\* a faulty variant of lines 228-234: the test for the last article comes first
SegmentLastFirst(article, i, n) ==
    LET title == Strip(Get(article, "title", <<W("Sin titulo", 10)>>))
        tail == Concat(Concat(title, <<DOT, SP>>), CleanSummary(article))
    IN  IF i = n - 1 THEN Concat(<<W("Y para cerrar:", 14), SP>>, tail)
        ELSE IF i = 0 THEN Concat(<<W("Nuestra primera noticia:", 24), SP>>, tail)
        ELSE Concat(<<Transitions[Min(i, Len(Transitions) - 1) + 1], SP>>, tail)

\* the segment of article i (from 0) of n (lines 216-234)
Segment(article, i, n) ==
    LET title == Strip(Get(article, "title", <<W("Sin titulo", 10)>>))
        tail == Concat(Concat(title, <<DOT, SP>>), CleanSummary(article))
    IN  IF i = 0 THEN Concat(<<W("Nuestra primera noticia:", 24), SP>>, tail)
        ELSE IF i = n - 1 THEN Concat(<<W("Y para cerrar:", 14), SP>>, tail)
        ELSE Concat(<<Transitions[Min(i, Len(Transitions) - 1) + 1], SP>>, tail)

\* the loop over the articles (lines 215-237): the segments and the progress
\* records, up to the first article that is no dict (article.get raises)
RECURSIVE ScriptLoop(_, _, _, _)
ScriptLoop(articles, i, segments, progress) ==
    IF i = Len(articles) THEN Returned(segments, progress, <<>>)
    ELSE IF ~IsDict(articles[i + 1])
    THEN Raised(<<"object has no attribute 'get'">>, progress, <<>>)
    ELSE ScriptLoop(articles, i + 1,
                    Append(segments, Segment(articles[i + 1], i, Len(articles))),
                    Append(progress,
                           ProgressRecord("script", 30 + (i + 1) * 10,
                               <<"Procesada noticia ", ToString(i + 1), "/",
                                 ToString(Len(articles))>>)))

\* a faulty variant of line 196: every article is used
AllArticles(all_articles) == all_articles

\* articles[:5]
FirstArticles(all_articles) == SubSeq(all_articles, 1, Min(Len(all_articles), MaxArticles))

\* a faulty variant of lines 191-247: the script is the text generator's
generate_podcast_script_by_generator(all_articles, generator) ==
    IF generator = None
    THEN Raised(<<"No hay generador de texto">>, <<>>, <<>>)
    ELSE Returned(<<W("Guion generado por el modelo", 28), DOT>>, <<>>, <<>>)

\* line 191 binds the global text_generator; nothing in the body reads it
generate_podcast_script(all_articles, generator) ==
    LET first == <<ProgressRecord("script", 10, <<"Preparando guion de podcast...">>)>>
        articles == FirstArticles(all_articles)
    IN  IF articles = <<>>
        THEN Raised(<<"No hay articulos para generar el podcast">>, first, <<>>)
        ELSE LET loop == ScriptLoop(articles, 0, <<>>,
                             Append(first, ProgressRecord("script", 30,
                                 <<"Procesando ", ToString(Len(articles)), " noticias...">>)))
             IN  IF loop.raised THEN loop
                 ELSE LET script == Concat(Concat(Concat(Concat(Intro, <<SP>>),
                                        JoinSpace(loop.value)), <<SP>>), Outro)
                      IN  Returned(script,
                              Append(loop.progress, ProgressRecord("script", 90,
                                  <<"Guion generado: ", ToString(StrLen(script)),
                                    " caracteres">>)),
                              <<>>)

(***************************************************************************)
(* The capabilities behind the handles.  They are external: what they      *)
(* return is chosen by the action that calls them.                         *)
(***************************************************************************)
\* audio files the speech-to-text engine can read; it raises on any other path
ReadablePaths == {"a.wav"}

NoTranscription == [text |-> <<>>, segments |-> <<>>, language |-> None]

\* WhisperSTT.transcribe: lang = language or self.language
WhisperLanguage(handle, language) ==
    IF language \notin {None, ""} THEN language
    ELSE IF handle = "WhisperSTT(tiny.en)" THEN "en" ELSE None

\* the translation pipeline on one chunk: one word that translates it, long
\* enough in mode "long" for the synthesis to have to split the joined text
Translation(chunk, mode) ==
    IF mode = "long"
    THEN <<[t |-> "w", s |-> "es", len |-> 1200, src |-> chunk], DOT>>
    ELSE <<[t |-> "w", s |-> "es", len |-> 10, src |-> chunk]>>

RECURSIVE TranslateBatch(_, _)
TranslateBatch(chunks, mode) ==
    IF chunks = <<>> THEN <<>>
    ELSE <<Translation(Head(chunks), mode)>> \o TranslateBatch(Tail(chunks), mode)

(***************************************************************************)
(* worker_ai.transcribe_audio, translate_text, synthesize_speech.          *)
(***************************************************************************)
SttCall(handle, input_path, language) ==
    [cap |-> "stt", handle |-> handle, input_path |-> input_path, language |-> language]

\* a faulty variant of line 119: the general model is taken for every language
transcribe_audio_general(input_path, language, text) ==
    LET model == whisper_model
        before == <<ProgressRecord("stt", 10, <<"Iniciando transcripcion...">>),
                    ProgressRecord("stt", 20, <<"Transcribiendo en ", Str(language), "...">>)>>
    IN  IF model = None
        THEN Raised(<<"'NoneType' object has no attribute 'transcribe'">>, before, <<>>)
        ELSE IF input_path \notin ReadablePaths
        THEN Raised(<<"cannot open ", Str(input_path)>>, before,
                    <<SttCall(model, input_path, language)>>)
        ELSE Returned([text |-> text, segments |-> <<>>,
                       language |-> WhisperLanguage(model, language)],
                      Append(before, ProgressRecord("stt", 70,
                          <<"Transcripcion completada: ", ToString(StrLen(text)),
                            " caracteres">>)),
                      <<SttCall(model, input_path, language)>>)

\* transcribe_audio(input_path, language) when the engine would return `text`
transcribe_audio(input_path, language, text) ==
    LET model == IF language = "en" THEN whisper_model_en ELSE whisper_model
        before == <<ProgressRecord("stt", 10, <<"Iniciando transcripcion...">>),
                    ProgressRecord("stt", 20, <<"Transcribiendo en ", Str(language), "...">>)>>
    IN  IF model = None
        THEN Raised(<<"'NoneType' object has no attribute 'transcribe'">>, before, <<>>)
        ELSE IF input_path \notin ReadablePaths
        THEN Raised(<<"cannot open ", Str(input_path)>>, before,
                    <<SttCall(model, input_path, language)>>)
        ELSE Returned([text |-> text, segments |-> <<>>,
                       language |-> WhisperLanguage(model, language)],
                      Append(before, ProgressRecord("stt", 70,
                          <<"Transcripcion completada: ", ToString(StrLen(text)),
                            " caracteres">>)),
                      <<SttCall(model, input_path, language)>>)

\* translate_text(text) when the pipeline answers in `mode`: "raise", "short" or "long"
translate_text(text, mode) ==
    LET chunks == TranslateChunks(text)
        valid_chunks == ValidChunks(chunks)
        first == <<ProgressRecord("translation", 45, <<"Iniciando traduccion...">>)>>
        before == IF valid_chunks # <<>>
                  THEN Append(first, ProgressRecord("translation", 52,
                           <<"Traduciendo ", ToString(Len(valid_chunks)), " chunks...">>))
                  ELSE first
        calls == IF valid_chunks # <<>>
                 THEN <<[cap |-> "translator", handle |-> translator, chunks |-> valid_chunks]>>
                 ELSE <<>>
    IN  IF valid_chunks # <<>> /\ translator = None
        THEN Raised(<<"'NoneType' object is not callable">>, before, <<>>)
        ELSE IF valid_chunks # <<>> /\ mode = "raise"
        THEN Raised(<<"translation failed">>, before, calls)
        ELSE LET translated_chunks == TranslateBatch(valid_chunks, mode)
                 text_es == JoinSpace(translated_chunks)
             IN  Returned(text_es,
                     Append(before, ProgressRecord("translation", 65,
                         <<"Traduccion completada: ", ToString(StrLen(text_es)),
                           " caracteres">>)),
                     calls)

(***************************************************************************)
(* tts_utils: TextToSpeech.load, get_tts, TextToSpeech.synthesize.         *)
(***************************************************************************)
\* load() on platform p when the engine's own loading succeeds (load_ok) or
\* raises: no backend at all always raises, espeak was just found by the probe
LoadRaises(p, load_ok) ==
    \/ LoadChoice(p) = "none"
    \/ LoadChoice(p) \in {"pyttsx3", "piper"} /\ ~load_ok

\* a faulty variant of lines 399-404: an instance per voice
get_tts_per_voice(instance, voice, p, load_ok) ==
    IF instance = <<>> \/ instance[1].voice # normalize_voice(voice)
    THEN IF LoadRaises(p, load_ok)
         THEN [instance |-> <<NewTextToSpeech(voice, p)>>, raised |-> TRUE]
         ELSE [instance |-> <<Loaded(NewTextToSpeech(voice, p), LoadChoice(p))>>,
               raised |-> FALSE]
    ELSE [instance |-> instance, raised |-> FALSE]

\* get_tts(voice): the singleton after the call, and whether load() raised
get_tts(instance, voice, p, load_ok) ==
    IF instance = <<>>
    THEN IF LoadRaises(p, load_ok)
         THEN [instance |-> <<NewTextToSpeech(voice, p)>>, raised |-> TRUE]
         ELSE [instance |-> <<Loaded(NewTextToSpeech(voice, p), LoadChoice(p))>>,
               raised |-> FALSE]
    ELSE [instance |-> instance, raised |-> FALSE]

TtsProgress(percent, message) == ProgressRecord("tts", percent, message)

\* how a call of the synthesis ended: it raised, or what it returned
Outcome(r) == IF r.raised THEN "raised" ELSE IF r.value THEN "True" ELSE "False"

\* the call tts_synthesize(text, output_path, voice_id, progress_callback) of
\* worker_ai line 181, with how it ended
SynthesizeCall(text, output_path, voice_id, outcome) ==
    [cap |-> "synthesize", text |-> text, output_path |-> output_path, voice |-> voice_id,
     outcome |-> outcome]

\* the loop over the chunks of _synthesize_pyttsx3 / _synthesize_piper /
\* _synthesize_espeak: blank chunks are skipped, the engine is called on the
\* others; engine_ok is whether the engine's calls succeed
RECURSIVE SynthLoop(_, _, _, _, _, _)
SynthLoop(chunks, i, inst, choice, engine_ok, acc) ==
    IF i = Len(chunks) THEN acc
    ELSE LET chunk == chunks[i + 1]
             call == [cap |-> "tts", engine |-> choice, voice |-> inst.voice, chunk |-> chunk]
         IN  IF IsBlank(chunk) THEN SynthLoop(chunks, i + 1, inst, choice, engine_ok, acc)
             ELSE IF choice = "pyttsx3" /\ ~inst.engine
             THEN Raised(<<"'NoneType' object has no attribute 'say'">>, acc.progress, acc.calls)
             ELSE IF ~engine_ok
             THEN Raised(<<"synthesis failed">>, acc.progress, Append(acc.calls, call))
             ELSE SynthLoop(chunks, i + 1, inst, choice, engine_ok,
                      Returned(TRUE,
                          Append(acc.progress,
                              TtsProgress(72 + (((i + 1) * 20) \div Len(chunks)),
                                  <<"Segmento ", ToString(i + 1), "/",
                                    ToString(Len(chunks))>>)),
                          Append(acc.calls, call)))

\* a faulty variant of lines 164-183: a failed export is reported by returning
\* False instead of raising
synthesize_reports_failure(inst, p, text, output_path, engine_ok, export_ok) ==
    LET choice == SynthesizeChoice(inst, p) IN
    IF choice = "none" THEN Raised(<<"No hay backend TTS cargado">>, <<>>, <<>>)
    ELSE LET chunks == SplitText(text, MAX_CHARS)
             start == <<TtsProgress(70, <<"Iniciando sintesis de voz (", choice, ")...">>),
                        TtsProgress(72, <<"Sintetizando ", ToString(Len(chunks)),
                                          " segmento(s)...">>)>>
             loop == SynthLoop(chunks, 0, inst, choice, engine_ok,
                               Returned(TRUE, start, <<>>))
         IN  IF loop.raised THEN loop
             ELSE LET exporting == Append(loop.progress,
                                       TtsProgress(94, <<"Exportando MP3...">>))
                  IN  IF ~export_ok
                      THEN Returned(FALSE, exporting, loop.calls)
                      ELSE Returned(TRUE,
                               Append(exporting,
                                   TtsProgress(98, <<"Audio generado correctamente">>)),
                               loop.calls)

\* TextToSpeech.synthesize(text, output_path, progress_callback)
synthesize(inst, p, text, output_path, engine_ok, export_ok) ==
    LET choice == SynthesizeChoice(inst, p) IN
    IF choice = "none" THEN Raised(<<"No hay backend TTS cargado">>, <<>>, <<>>)
    ELSE LET chunks == SplitText(text, MAX_CHARS)
             start == <<TtsProgress(70, <<"Iniciando sintesis de voz (", choice, ")...">>),
                        TtsProgress(72, <<"Sintetizando ", ToString(Len(chunks)),
                                          " segmento(s)...">>)>>
             loop == SynthLoop(chunks, 0, inst, choice, engine_ok,
                               Returned(TRUE, start, <<>>))
         IN  IF loop.raised THEN loop
             ELSE LET exporting == Append(loop.progress,
                                       TtsProgress(94, <<"Exportando MP3...">>))
                  IN  IF ~export_ok
                      THEN Raised(<<"cannot write ", Str(output_path)>>, exporting, loop.calls)
                      ELSE Returned(TRUE,
                               Append(exporting,
                                   TtsProgress(98, <<"Audio generado correctamente">>)),
                               loop.calls)

\* a faulty variant of lines 407-422: a failed synthesis drops the singleton, so
\* that the next call builds the engine again
TtsSynthesizeReset(text, output_path, voice_id, load_ok, engine_ok, export_ok) ==
    LET got == get_tts(tts_instance, voice_id, platform, load_ok)
    IN  IF got.raised
        THEN [instance |-> <<>>,
              out |-> Raised(<<"TTS load failed">>, <<>>,
                             <<SynthesizeCall(text, output_path, voice_id, "raised")>>)]
        ELSE LET r == synthesize(got.instance[1], platform, text, output_path,
                                 engine_ok, export_ok)
                 call == SynthesizeCall(text, output_path, voice_id, Outcome(r))
             IN  [instance |-> IF r.raised THEN <<>> ELSE got.instance,
                  out |-> [r EXCEPT !.calls = <<call>> \o r.calls]]

\* tts_utils.synthesize_speech(text, output_path, voice, progress_callback)
\* (lines 407-422), with the singleton after the call in the field instance
TtsSynthesize(text, output_path, voice_id, load_ok, engine_ok, export_ok) ==
    LET got == get_tts(tts_instance, voice_id, platform, load_ok)
    IN  IF got.raised
        THEN [instance |-> got.instance,
              out |-> Raised(<<"TTS load failed">>, <<>>,
                             <<SynthesizeCall(text, output_path, voice_id, "raised")>>)]
        ELSE LET r == synthesize(got.instance[1], platform, text, output_path,
                                 engine_ok, export_ok)
                 call == SynthesizeCall(text, output_path, voice_id, Outcome(r))
             IN  [instance |-> got.instance,
                  out |-> [r EXCEPT !.calls = <<call>> \o r.calls]]

\* a faulty variant of line 181: the audio goes to a path of its own
synthesize_speech_own_path(text, output_path, voice, load_ok, engine_ok, export_ok) ==
    LET voice_id == normalize_voice(voice)
        first == <<TtsProgress(70, <<"Usando voz: ", voice_id, " (",
                                     get_tts_backend(platform), ")">>)>>
        s == TtsSynthesize(text, "output.mp3", voice_id, load_ok, engine_ok, export_ok)
    IN  [instance |-> s.instance,
         out |-> [s.out EXCEPT !.progress = first \o s.out.progress]]

\* worker_ai.synthesize_speech(text, output_path, voice)
synthesize_speech(text, output_path, voice, load_ok, engine_ok, export_ok) ==
    LET voice_id == normalize_voice(voice)
        first == <<TtsProgress(70, <<"Usando voz: ", voice_id, " (",
                                     get_tts_backend(platform), ")">>)>>
        s == TtsSynthesize(text, output_path, voice_id, load_ok, engine_ok, export_ok)
    IN  [instance |-> s.instance,
         out |-> [s.out EXCEPT !.progress = first \o s.out.progress]]

(***************************************************************************)
(* The lines the model feeds on stdin.                                     *)
(***************************************************************************)
ShortText == <<W("Hello world", 11), DOT>>
TwoSentences == <<W("First sentence", 250), DELIM, W("Second sentence", 250), DOT>>
BlankText == <<SP>>

\* the texts the speech-to-text engine may return ("" for silence)
TranscriptTexts == {<<>>, ShortText, TwoSentences}

Article1 == [title |-> <<W("Title one", 9)>>, summary |-> <<W("Summary one", 11), DOT>>]
ArticleLong == [title |-> <<SP, W("Title two", 9)>>, summary |-> <<W("Long summary", 350)>>]
ArticleDesc == [description |-> <<TAG("<p>", 3), W("Described", 9), TAG("</p>", 4)>>]
ArticleNoDict == [nondict |-> "a string"]

ArticleLists ==
    {<<>>, <<Article1>>, <<Article1, ArticleLong, ArticleDesc>>, <<Article1, ArticleNoDict>>,
     <<Article1, ArticleLong, ArticleDesc, Article1, ArticleLong, ArticleDesc, Article1>>}

KnownTypes ==
    {"transcribe", "translate", "translate_text", "generate_script", "generate_podcast",
     "ping", "shutdown"}

\* the fields of the job records
JobFields ==
    {[type |-> "transcribe"],
     [type |-> "transcribe", input_path |-> "a.wav"],
     [type |-> "transcribe", input_path |-> "a.wav", language |-> "en"],
     [type |-> "transcribe", input_path |-> "a.wav", language |-> "es"],
     [type |-> "transcribe", input_path |-> "missing.wav"],
     [type |-> "translate", input_path |-> "a.wav", output_path |-> "out.mp3"],
     [type |-> "translate", input_path |-> "a.wav", output_path |-> "out.mp3",
      voice |-> "es-MX-JorgeNeural"],
     [type |-> "translate", input_path |-> "a.wav", output_path |-> "out.mp3",
      voice |-> "no such voice"],
     [type |-> "translate", output_path |-> "out.mp3"],
     [type |-> "translate", input_path |-> "a.wav"],
     [type |-> "translate", input_path |-> "missing.wav", output_path |-> "out.mp3"],
     [type |-> "translate_text"],
     [type |-> "translate_text", text |-> <<>>],
     [type |-> "translate_text", text |-> BlankText],
     [type |-> "translate_text", text |-> ShortText],
     [type |-> "translate_text", text |-> TwoSentences],
     [type |-> "generate_script"],
     [type |-> "generate_podcast"],
     [type |-> "generate_podcast", articles |-> <<Article1>>],
     [type |-> "generate_podcast", articles |-> <<Article1>>, output_path |-> ""],
     [type |-> "generate_podcast", articles |-> <<Article1, ArticleLong, ArticleDesc>>,
      output_path |-> "out.mp3", voice |-> "es_MX-claude"],
     [type |-> "ping"],
     [type |-> "shutdown"],
     [type |-> "reticulate"],
     [language |-> "en"]}
    \cup {[type |-> "generate_script", articles |-> a] : a \in ArticleLists}
    \cup {[type |-> "generate_podcast", articles |-> a, output_path |-> "out.mp3"] :
              a \in ArticleLists}

\* a parsed JSON value: an object with its fields, or anything else
Object(fields) == [is_dict |-> TRUE, fields |-> fields]
NoObject == [is_dict |-> FALSE, fields |-> <<>>]

BlankLine == [text |-> "blank", value |-> NoObject]
InvalidLine == [text |-> "invalid json", value |-> NoObject]
JsonLine(value) == [text |-> "json", value |-> value]

Lines ==
    {BlankLine, InvalidLine, JsonLine(NoObject)} \cup {JsonLine(Object(f)) : f \in JobFields}

(***************************************************************************)
(* The state after the module was imported: main() is about to start.      *)
(***************************************************************************)
NoLocals == [transcription |-> NoTranscription, text_es |-> <<>>, script |-> <<>>]

Init ==
    /\ pc = "load_models"
    /\ exit_code = "running"
    /\ whisper_model = None
    /\ whisper_model_en = None
    /\ translator = None
    /\ text_generator = None
    /\ tts_engine = None
    /\ tts_instance = <<>>
    /\ platform \in Platforms
    /\ lines_read = 0
    /\ line = BlankLine
    /\ job = NoObject
    /\ locals = NoLocals
    /\ result = <<>>
    /\ exception = <<>>
    /\ written = <<>>
    /\ job_calls = <<>>
    /\ order = <<>>

io == <<lines_read, line, job, locals, result, exception, job_calls, order>>

(***************************************************************************)
(* load_models, one action per capability it constructs.  A constructor    *)
(* that raises ends load_models in its except clause (lines 108-110), and  *)
(* main() exits with code 1 (lines 367-368).                               *)
(***************************************************************************)
\* a faulty variant: load_models reports the error and main() enters the loop
LoadFailedGoesOn(records) ==
    /\ written' = written \o records \o
                     <<StatusRecord("error", <<"Error cargando modelos: ", "load failed">>)>>
    /\ pc' = "ready"
    /\ UNCHANGED exit_code

LoadFailed(records) ==
    /\ written' = written \o records \o
                     <<StatusRecord("error", <<"Error cargando modelos: ", "load failed">>)>>
    /\ pc' = "terminated"
    /\ exit_code' = "1"

SttBackend == IF platform.macos THEN "openai-whisper" ELSE "faster-whisper"

LoadWhisper ==
    /\ pc = "load_models"
    /\ LET records == <<StatusRecord("loading", <<"Cargando modelos de IA...">>),
                        StatusRecord("loading", <<"Cargando Whisper tiny (", SttBackend, ")...">>)>>
       IN  \E ok \in BOOLEAN :
              IF ok
              THEN /\ whisper_model' = "WhisperSTT(tiny)"
                   /\ written' = written \o records
                   /\ pc' = "load_whisper_en"
                   /\ UNCHANGED exit_code
              ELSE /\ LoadFailed(records)
                   /\ UNCHANGED whisper_model
    /\ UNCHANGED <<whisper_model_en, translator, text_generator, tts_engine, tts_instance,
                   platform, io>>

LoadWhisperEn ==
    /\ pc = "load_whisper_en"
    /\ LET records == <<StatusRecord("loading",
                            <<"Cargando Whisper tiny.en (", SttBackend, ")...">>)>>
       IN  \E ok \in BOOLEAN :
              IF ok
              THEN /\ whisper_model_en' = "WhisperSTT(tiny.en)"
                   /\ written' = written \o records
                   /\ pc' = "load_translator"
                   /\ UNCHANGED exit_code
              ELSE /\ LoadFailed(records)
                   /\ UNCHANGED whisper_model_en
    /\ UNCHANGED <<whisper_model, translator, text_generator, tts_engine, tts_instance,
                   platform, io>>

\* a faulty variant: the translation model is loaded like the optional text generator
LoadTranslatorOptional ==
    /\ pc = "load_translator"
    /\ LET first == StatusRecord("loading", <<"Cargando modelo de traduccion EN->ES...">>)
       IN  \E ok \in BOOLEAN :
              /\ translator' = IF ok THEN "pipeline(translation)" ELSE None
              /\ written' = Append(written, first)
    /\ pc' = "load_text_generator"
    /\ UNCHANGED <<exit_code, whisper_model, whisper_model_en, text_generator, tts_engine,
                   tts_instance, platform, io>>

LoadTranslator ==
    /\ pc = "load_translator"
    /\ LET records == <<StatusRecord("loading", <<"Cargando modelo de traduccion EN->ES...">>)>>
       IN  \E ok \in BOOLEAN :
              IF ok
              THEN /\ translator' = "pipeline(translation)"
                   /\ written' = written \o records
                   /\ pc' = "load_text_generator"
                   /\ UNCHANGED exit_code
              ELSE /\ LoadFailed(records)
                   /\ UNCHANGED translator
    /\ UNCHANGED <<whisper_model, whisper_model_en, text_generator, tts_engine, tts_instance,
                   platform, io>>

\* a faulty variant of lines 83-93: a text generator that fails to load ends load_models
LoadTextGeneratorRequired ==
    /\ pc = "load_text_generator"
    /\ LET first == StatusRecord("loading", <<"Cargando modelo de generacion de texto...">>)
       IN  \E ok \in BOOLEAN :
              IF ok
              THEN /\ text_generator' = "pipeline(text-generation)"
                   /\ written' = written \o
                          <<first, StatusRecord("loading",
                                       <<"Modelo de texto cargado correctamente">>)>>
                   /\ pc' = "load_tts"
                   /\ UNCHANGED exit_code
              ELSE /\ text_generator' = None
                   /\ LoadFailed(<<first, StatusRecord("loading",
                                    <<"Generador de texto no disponible: ", "load failed">>)>>)
    /\ UNCHANGED <<whisper_model, whisper_model_en, translator, tts_engine,
                   tts_instance, platform, io>>

\* lines 83-93: the text generator may fail to load
LoadTextGenerator ==
    /\ pc = "load_text_generator"
    /\ LET first == StatusRecord("loading", <<"Cargando modelo de generacion de texto...">>)
       IN  \E ok \in BOOLEAN :
              IF ok
              THEN /\ text_generator' = "pipeline(text-generation)"
                   /\ written' = written \o
                          <<first, StatusRecord("loading",
                                       <<"Modelo de texto cargado correctamente">>)>>
              ELSE /\ text_generator' = None
                   /\ written' = written \o
                          <<first, StatusRecord("loading",
                                       <<"Generador de texto no disponible: ", "load failed">>)>>
    /\ pc' = "load_tts"
    /\ UNCHANGED <<exit_code, whisper_model, whisper_model_en, translator, tts_engine,
                   tts_instance, platform, io>>

\* a faulty variant of lines 95-106: the ready status is written before the
\* speech engine is loaded
LoadTTSReadyFirst ==
    /\ pc = "load_tts"
    /\ LET first == StatusRecord("loading",
                        <<"Cargando motor TTS (", get_tts_backend(platform), ")...">>)
           ready == StatusRecord("ready", <<"Todos los modelos cargados correctamente">>)
       IN  \E load_ok \in BOOLEAN :
              LET got == get_tts(tts_instance, DEFAULT_VOICE, platform, load_ok) IN
              /\ tts_instance' = got.instance
              /\ IF got.raised
                 THEN /\ tts_engine' = None
                      /\ written' = written \o
                             <<ready, first, StatusRecord("loading",
                                          <<"Error cargando TTS: ", "load failed">>)>>
                 ELSE /\ tts_engine' = "TextToSpeech"
                      /\ written' = written \o
                             <<ready, first, StatusRecord("loading",
                                          <<"Motor TTS cargado: ", get_tts_backend(platform)>>)>>
    /\ pc' = "ready"
    /\ UNCHANGED <<exit_code, whisper_model, whisper_model_en, translator, text_generator,
                   platform, io>>

\* lines 95-106: the speech synthesis engine, then the ready status
LoadTTS ==
    /\ pc = "load_tts"
    /\ LET first == StatusRecord("loading",
                        <<"Cargando motor TTS (", get_tts_backend(platform), ")...">>)
           ready == StatusRecord("ready", <<"Todos los modelos cargados correctamente">>)
       IN  \E load_ok \in BOOLEAN :
              LET got == get_tts(tts_instance, DEFAULT_VOICE, platform, load_ok) IN
              /\ tts_instance' = got.instance
              /\ IF got.raised
                 THEN /\ tts_engine' = None
                      /\ written' = written \o
                             <<first, StatusRecord("loading",
                                          <<"Error cargando TTS: ", "load failed">>), ready>>
                 ELSE /\ tts_engine' = "TextToSpeech"
                      /\ written' = written \o
                             <<first, StatusRecord("loading",
                                          <<"Motor TTS cargado: ", get_tts_backend(platform)>>),
                               ready>>
    /\ pc' = "ready"
    /\ UNCHANGED <<exit_code, whisper_model, whisper_model_en, translator, text_generator,
                   platform, io>>

(***************************************************************************)
(* main(): the loop over stdin (lines 371-390) and process_job.            *)
(***************************************************************************)
\* a faulty variant of a success record: the payload is left out
SuccessWithoutPayload(payload) == [success |-> TRUE]

Success(payload) == [success |-> TRUE, result |-> payload]
\* a faulty variant of a failure record: it also carries a null `result`
FailureWithResult(message) == [success |-> FALSE, error |-> message, result |-> None]

Failure(message) == [success |-> FALSE, error |-> message]

\* the index of the non-blank line the loop is at: the number read so far
NonBlankRead == Cardinality({i \in DOMAIN order : order[i][1] = "line"})

Field(key, default) == Get(job.fields, key, default)

\* a faulty variant without the test of lines 373-374: a blank line goes to
\* json.loads, which raises
ReadLineNoSkip ==
    /\ pc = "ready"
    /\ lines_read < MaxLines
    /\ \E l \in Lines :
          /\ line' = l
          /\ lines_read' = lines_read + 1
          /\ written' = <<>>
          /\ job_calls' = <<>>
          /\ result' = <<>>
          /\ locals' = NoLocals
          /\ CASE l.text \in {"blank", "invalid json"} ->
                    /\ exception' = <<<<"Expecting value">>>>
                    /\ order' = Append(order, <<"line", NonBlankRead + 1>>)
                    /\ pc' = "json_decode_error"
                    /\ UNCHANGED job
               [] OTHER ->
                    /\ job' = l.value
                    /\ order' = Append(order, <<"line", NonBlankRead + 1>>)
                    /\ pc' = "process_job"
                    /\ UNCHANGED exception
    /\ UNCHANGED <<exit_code, handles, tts_instance, platform>>

\* `for line in sys.stdin`: the next line.  A blank line is skipped (372-374);
\* json.loads raises on a line that is no JSON; any other line is the job
\* process_job is called with.
ReadLine ==
    /\ pc = "ready"
    /\ lines_read < MaxLines
    /\ \E l \in Lines :
          /\ line' = l
          /\ lines_read' = lines_read + 1
          /\ written' = <<>>
          /\ job_calls' = <<>>
          /\ result' = <<>>
          /\ locals' = NoLocals
          /\ CASE l.text = "blank" ->
                    /\ pc' = "ready"
                    /\ UNCHANGED <<job, order, exception>>
               [] l.text = "invalid json" ->
                    /\ exception' = <<<<"Expecting value">>>>
                    /\ order' = Append(order, <<"line", NonBlankRead + 1>>)
                    /\ pc' = "json_decode_error"
                    /\ UNCHANGED job
               [] OTHER ->
                    /\ job' = l.value
                    /\ order' = Append(order, <<"line", NonBlankRead + 1>>)
                    /\ pc' = "process_job"
                    /\ UNCHANGED exception
    /\ UNCHANGED <<exit_code, handles, tts_instance, platform>>

\* a faulty variant of line 371: at the end of stdin the loop goes on waiting
EndOfInputBlocks ==
    /\ pc = "ready"
    /\ UNCHANGED <<pc, exit_code, handles, tts_instance, platform, io, written>>

\* stdin is at its end: the loop and main() end
EndOfInput ==
    /\ pc = "ready"
    /\ pc' = "terminated"
    /\ exit_code' = "0"
    /\ UNCHANGED <<handles, tts_instance, platform, io, written>>

\* lines 387-388: json.loads raised
OnJSONDecodeError ==
    /\ pc = "json_decode_error"
    /\ written' = Append(written, Failure(<<"JSON invalido: ">> \o exception[1]))
    /\ order' = Append(order, <<"result", NonBlankRead>>)
    /\ exception' = <<>>
    /\ pc' = "ready"
    /\ UNCHANGED <<exit_code, handles, tts_instance, platform, lines_read, line, job, locals,
                   result, job_calls>>

\* a faulty variant without the clause of lines 389-390: the exception ends main()
OnExceptionUncaught ==
    /\ pc = "main_exception"
    /\ pc' = "terminated"
    /\ exit_code' = "1"
    /\ UNCHANGED <<handles, tts_instance, platform, io, written>>

\* lines 389-390: anything else raised in the body of the loop
OnException ==
    /\ pc = "main_exception"
    /\ written' = Append(written, Failure(exception[1]))
    /\ order' = Append(order, <<"result", NonBlankRead>>)
    /\ exception' = <<>>
    /\ pc' = "ready"
    /\ UNCHANGED <<exit_code, handles, tts_instance, platform, lines_read, line, job, locals,
                   result, job_calls>>

\* a faulty variant of lines 378-381: the result is not printed
ReturnUnprinted(r) ==
    /\ result' = <<r>>
    /\ pc' = "ready"

\* process_job returns `r` to main (line 378)
Return(r) ==
    /\ result' = <<r>>
    /\ pc' = "print_result"

\* an exception leaves a step of process_job's try block
Raise(message) ==
    /\ exception' = <<message>>
    /\ pc' = "job_exception"

\* a faulty variant of line 358: the message does not name the type
UnknownTypeErrorNoName(job_type) == <<"Tipo de trabajo desconocido">>

\* line 358
UnknownTypeError(job_type) == <<"Tipo de trabajo desconocido: ", Str(job_type)>>

\* a faulty variant of lines 301-313: the first progress record of a
\* generate_podcast job is printed before its output_path is looked at
ProcessJobProgressFirst ==
    /\ pc = "process_job"
    /\ IF ~job.is_dict
       THEN /\ exception' = <<<<"object has no attribute 'get'">>>>
            /\ pc' = "main_exception"
            /\ UNCHANGED <<written, result>>
       ELSE LET job_type == Field("type", None) IN
            /\ UNCHANGED exception
            /\ CASE job_type \in {"transcribe", "translate"} ->
                      /\ pc' = "transcribe_audio"
                      /\ UNCHANGED <<written, result>>
                 [] job_type = "generate_script" ->
                      /\ UNCHANGED written
                      /\ IF Field("articles", <<>>) = <<>>
                         THEN Return(Failure(<<"No se proporcionaron articulos">>))
                         ELSE pc' = "generate_podcast_script" /\ UNCHANGED result
                 [] job_type = "generate_podcast" ->
                      IF Field("articles", <<>>) = <<>>
                      THEN Return(Failure(<<"No se proporcionaron articulos">>))
                           /\ UNCHANGED written
                      ELSE IF Field("output_path", None) \in {None, ""}
                      THEN Return(Failure(<<"No se proporciono ruta de salida">>))
                           /\ written' = written \o
                                <<ProgressRecord("podcast", 5,
                                      <<"Iniciando generacion de podcast IA...">>)>>
                      ELSE /\ written' = written \o
                                <<ProgressRecord("podcast", 5,
                                      <<"Iniciando generacion de podcast IA...">>),
                                  ProgressRecord("podcast", 10, <<"Generando guion...">>)>>
                           /\ pc' = "generate_podcast_script"
                           /\ UNCHANGED result
                 [] job_type = "translate_text" ->
                      /\ UNCHANGED written
                      /\ IF Field("text", <<>>) = <<>>
                         THEN Return(Failure(<<"No se proporciono texto">>))
                         ELSE pc' = "translate_text" /\ UNCHANGED result
                 [] job_type = "ping" ->
                      Return(Success("pong")) /\ UNCHANGED written
                 [] job_type = "shutdown" ->
                      Return(Success("shutting_down")) /\ UNCHANGED written
                 [] OTHER ->
                      Return(Failure(UnknownTypeError(job_type))) /\ UNCHANGED written
    /\ UNCHANGED <<exit_code, handles, tts_instance, platform, lines_read, line, job,
                   locals, job_calls, order>>

\* process_job up to its first call (lines 251-358).  job.get on a value that
\* is no dict raises before the try block is entered.
ProcessJob ==
    /\ pc = "process_job"
    /\ IF ~job.is_dict
       THEN /\ exception' = <<<<"object has no attribute 'get'">>>>
            /\ pc' = "main_exception"
            /\ UNCHANGED <<written, result>>
       ELSE LET job_type == Field("type", None) IN
            /\ UNCHANGED exception
            /\ CASE job_type \in {"transcribe", "translate"} ->
                      /\ pc' = "transcribe_audio"
                      /\ UNCHANGED <<written, result>>
                 [] job_type = "generate_script" ->
                      /\ UNCHANGED written
                      /\ IF Field("articles", <<>>) = <<>>
                         THEN Return(Failure(<<"No se proporcionaron articulos">>))
                         ELSE pc' = "generate_podcast_script" /\ UNCHANGED result
                 [] job_type = "generate_podcast" ->
                      IF Field("articles", <<>>) = <<>>
                      THEN Return(Failure(<<"No se proporcionaron articulos">>))
                           /\ UNCHANGED written
                      ELSE IF Field("output_path", None) \in {None, ""}
                      THEN Return(Failure(<<"No se proporciono ruta de salida">>))
                           /\ UNCHANGED written
                      ELSE /\ written' = written \o
                                <<ProgressRecord("podcast", 5,
                                      <<"Iniciando generacion de podcast IA...">>),
                                  ProgressRecord("podcast", 10, <<"Generando guion...">>)>>
                           /\ pc' = "generate_podcast_script"
                           /\ UNCHANGED result
                 [] job_type = "translate_text" ->
                      /\ UNCHANGED written
                      /\ IF Field("text", <<>>) = <<>>
                         THEN Return(Failure(<<"No se proporciono texto">>))
                         ELSE pc' = "translate_text" /\ UNCHANGED result
                 [] job_type = "ping" ->
                      Return(Success("pong")) /\ UNCHANGED written
                 [] job_type = "shutdown" ->
                      Return(Success("shutting_down")) /\ UNCHANGED written
                 [] OTHER ->
                      Return(Failure(UnknownTypeError(job_type))) /\ UNCHANGED written
    /\ UNCHANGED <<exit_code, handles, tts_instance, platform, lines_read, line, job,
                   locals, job_calls, order>>

\* transcribe_audio, called by a transcribe job (line 258) or as the first
\* step of a translate job (line 267)
TranscribeAudio ==
    /\ pc = "transcribe_audio"
    /\ \E text \in TranscriptTexts :
          LET is_translate == Field("type", None) = "translate"
              r == transcribe_audio(Field("input_path", None),
                                    IF is_translate THEN "en" ELSE Field("language", "en"),
                                    text)
          IN  /\ written' = written \o r.progress
              /\ job_calls' = job_calls \o r.calls
              /\ IF r.raised
                 THEN Raise(r.error) /\ UNCHANGED <<locals, result>>
                 ELSE IF is_translate
                 THEN /\ locals' = [locals EXCEPT !.transcription = r.value]
                      /\ pc' = "translate_text"
                      /\ UNCHANGED <<result, exception>>
                 ELSE Return(Success(r.value)) /\ UNCHANGED <<locals, exception>>
    /\ UNCHANGED <<exit_code, handles, tts_instance, platform, lines_read, line, job, order>>

\* a faulty variant of lines 269-273: a translate job whose translation raised
\* goes on to synthesize the English text
TranslateTextSwallows ==
    /\ pc = "translate_text"
    /\ \E mode \in {"raise", "short", "long"} :
          LET is_translate == Field("type", None) = "translate"
              text == IF is_translate THEN locals.transcription.text
                      ELSE Field("text", <<>>)
              r == translate_text(text, mode)
          IN  /\ written' = written \o r.progress
              /\ job_calls' = job_calls \o r.calls
              /\ IF r.raised /\ ~is_translate
                 THEN Raise(r.error) /\ UNCHANGED <<locals, result>>
                 ELSE IF is_translate
                 THEN /\ locals' = [locals EXCEPT !.text_es = IF r.raised THEN text ELSE r.value]
                      /\ pc' = "synthesize_speech"
                      /\ UNCHANGED <<result, exception>>
                 ELSE Return(Success([original |-> text, translated |-> r.value]))
                      /\ UNCHANGED <<locals, exception>>
    /\ UNCHANGED <<exit_code, handles, tts_instance, platform, lines_read, line, job, order>>

\* translate_text, called by a translate_text job (line 341) or as the second
\* step of a translate job (line 270)
TranslateText ==
    /\ pc = "translate_text"
    /\ \E mode \in {"raise", "short", "long"} :
          LET is_translate == Field("type", None) = "translate"
              text == IF is_translate THEN locals.transcription.text
                      ELSE Field("text", <<>>)
              r == translate_text(text, mode)
          IN  /\ written' = written \o r.progress
              /\ job_calls' = job_calls \o r.calls
              /\ IF r.raised
                 THEN Raise(r.error) /\ UNCHANGED <<locals, result>>
                 ELSE IF is_translate
                 THEN /\ locals' = [locals EXCEPT !.text_es = r.value]
                      /\ pc' = "synthesize_speech"
                      /\ UNCHANGED <<result, exception>>
                 ELSE Return(Success([original |-> text, translated |-> r.value]))
                      /\ UNCHANGED <<locals, exception>>
    /\ UNCHANGED <<exit_code, handles, tts_instance, platform, lines_read, line, job, order>>

\* generate_podcast_script, called by a generate_script job (line 291) or as
\* the first step of a generate_podcast job (line 317)
GeneratePodcastScript ==
    /\ pc = "generate_podcast_script"
    /\ LET articles == Field("articles", <<>>)
           r == generate_podcast_script(articles, text_generator)
       IN  IF r.raised
           THEN /\ written' = written \o r.progress
                /\ Raise(r.error)
                /\ UNCHANGED <<locals, result>>
           ELSE IF Field("type", None) = "generate_podcast"
           THEN /\ written' = written \o r.progress \o
                       <<ProgressRecord("podcast", 60, <<"Sintetizando audio...">>)>>
                /\ locals' = [locals EXCEPT !.script = r.value]
                /\ pc' = "synthesize_speech"
                /\ UNCHANGED <<result, exception>>
           ELSE /\ written' = written \o r.progress
                /\ Return(Success([script |-> r.value, article_count |-> Len(articles)]))
                /\ UNCHANGED <<locals, exception>>
    /\ UNCHANGED <<exit_code, handles, tts_instance, platform, lines_read, line, job,
                   job_calls, order>>

\* synthesize_speech, the last step of a translate job (line 273) and of a
\* generate_podcast job (line 321); its return value is not looked at
SynthesizeSpeech ==
    /\ pc = "synthesize_speech"
    /\ \E load_ok, engine_ok, export_ok \in BOOLEAN :
          LET is_translate == Field("type", None) = "translate"
              text == IF is_translate THEN locals.text_es ELSE locals.script
              output_path == Field("output_path", None)
              s == synthesize_speech(text, output_path, Field("voice", DEFAULT_VOICE),
                                     load_ok, engine_ok, export_ok)
              r == s.out
          IN  /\ tts_instance' = s.instance
              /\ job_calls' = job_calls \o r.calls
              /\ IF r.raised
                 THEN /\ written' = written \o r.progress
                      /\ Raise(r.error)
                      /\ UNCHANGED result
                 ELSE IF is_translate
                 THEN /\ written' = written \o r.progress
                      /\ Return(Success([text_en |-> locals.transcription.text,
                                          text_es |-> locals.text_es,
                                          output_path |-> output_path]))
                      /\ UNCHANGED exception
                 ELSE /\ written' = written \o r.progress \o
                             <<ProgressRecord("podcast", 100,
                                   <<"Podcast generado correctamente">>)>>
                      /\ Return(Success([script |-> locals.script,
                                          output_path |-> output_path,
                                          article_count |-> Len(Field("articles", <<>>))]))
                      /\ UNCHANGED exception
    /\ UNCHANGED <<exit_code, handles, platform, lines_read, line, job, locals, order>>

\* a faulty variant of lines 360-361: the message of the exception is dropped
OnJobExceptionGeneric ==
    /\ pc = "job_exception"
    /\ Return(Failure(<<"Error interno">>))
    /\ exception' = <<>>
    /\ UNCHANGED <<exit_code, handles, tts_instance, platform, lines_read, line, job, locals,
                   written, job_calls, order>>

\* lines 360-361: process_job's except clause
OnJobException ==
    /\ pc = "job_exception"
    /\ Return(Failure(exception[1]))
    /\ exception' = <<>>
    /\ UNCHANGED <<exit_code, handles, tts_instance, platform, lines_read, line, job, locals,
                   written, job_calls, order>>

\* a faulty variant of line 384: the loop never breaks
IsShutdownNever(j) == FALSE

\* line 384
IsShutdown(j) == Get(j.fields, "type", None) = "shutdown"

\* a faulty variant of lines 380-385: the shutdown check comes before the print
PrintResultBreakFirst ==
    /\ pc = "print_result"
    /\ IF IsShutdown(job)
       THEN pc' = "terminated" /\ exit_code' = "0" /\ UNCHANGED <<written, order>>
       ELSE /\ written' = Append(written, result[1])
            /\ order' = Append(order, <<"result", NonBlankRead>>)
            /\ pc' = "ready" /\ UNCHANGED exit_code
    /\ UNCHANGED <<handles, tts_instance, platform, lines_read, line, job, locals, result,
                   exception, job_calls>>

\* a faulty variant of lines 380-385: the result is printed twice
PrintResultTwice ==
    /\ pc = "print_result"
    /\ written' = written \o <<result[1], result[1]>>
    /\ order' = Append(order, <<"result", NonBlankRead>>)
    /\ IF Get(job.fields, "type", None) = "shutdown"
       THEN pc' = "terminated" /\ exit_code' = "0"
       ELSE pc' = "ready" /\ UNCHANGED exit_code
    /\ UNCHANGED <<handles, tts_instance, platform, lines_read, line, job, locals, result,
                   exception, job_calls>>

\* lines 380-385: the result is printed; a shutdown job ends the loop
PrintResult ==
    /\ pc = "print_result"
    /\ written' = Append(written, result[1])
    /\ order' = Append(order, <<"result", NonBlankRead>>)
    /\ IF IsShutdown(job)
       THEN pc' = "terminated" /\ exit_code' = "0"
       ELSE pc' = "ready" /\ UNCHANGED exit_code
    /\ UNCHANGED <<handles, tts_instance, platform, lines_read, line, job, locals, result,
                   exception, job_calls>>

Next ==
    \/ LoadWhisper
    \/ LoadWhisperEn
    \/ LoadTranslator
    \/ LoadTextGenerator
    \/ LoadTTS
    \/ ReadLine
    \/ EndOfInput
    \/ OnJSONDecodeError
    \/ OnException
    \/ ProcessJob
    \/ TranscribeAudio
    \/ TranslateText
    \/ GeneratePodcastScript
    \/ SynthesizeSpeech
    \/ OnJobException
    \/ PrintResult

Spec == Init /\ [][Next]_vars

(***************************************************************************)
(* process_job on a generate_script or generate_podcast job as a function  *)
(* of the job (lines 284-332): the records it prints and the result it     *)
(* returns, when the global text_generator holds generator and the speech  *)
(* engine behaves as load_ok, engine_ok and export_ok say.                 *)
(***************************************************************************)
ScriptJobOutcome(fields, generator, load_ok, engine_ok, export_ok) ==
    LET articles == Get(fields, "articles", <<>>)
        output_path == Get(fields, "output_path", None)
        podcast == Get(fields, "type", None) = "generate_podcast"
        start == IF podcast
                 THEN <<ProgressRecord("podcast", 5,
                            <<"Iniciando generacion de podcast IA...">>),
                        ProgressRecord("podcast", 10, <<"Generando guion...">>)>>
                 ELSE <<>>
        g == generate_podcast_script(articles, generator)
    IN  IF articles = <<>>
        THEN [written |-> <<>>, result |-> Failure(<<"No se proporcionaron articulos">>)]
        ELSE IF podcast /\ output_path \in {None, ""}
        THEN [written |-> <<>>, result |-> Failure(<<"No se proporciono ruta de salida">>)]
        ELSE IF g.raised
        THEN [written |-> start \o g.progress, result |-> Failure(g.error)]
        ELSE IF ~podcast
        THEN [written |-> g.progress,
              result |-> Success([script |-> g.value, article_count |-> Len(articles)])]
        ELSE LET s == synthesize_speech(g.value, output_path,
                                        Get(fields, "voice", DEFAULT_VOICE),
                                        load_ok, engine_ok, export_ok).out
                 before == start \o g.progress \o
                           <<ProgressRecord("podcast", 60, <<"Sintetizando audio...">>)>> \o
                           s.progress
             IN  IF s.raised
                 THEN [written |-> before, result |-> Failure(s.error)]
                 ELSE [written |-> Append(before, ProgressRecord("podcast", 100,
                                              <<"Podcast generado correctamente">>)),
                       result |-> Success([script |-> g.value, output_path |-> output_path,
                                           article_count |-> Len(articles)])]

(***************************************************************************)
(* The chunking on its own: the worker with one job in flight, over every  *)
(* text of at most MaxTokens tokens.  Either a translate_text job has just *)
(* been read (its text goes through the chunking of translate_text, with   *)
(* threshold 400), or a translate job stands before synthesize_speech (the *)
(* translation model returned the text for the one chunk of the            *)
(* transcript; it goes through _split_text, with threshold 2000).          *)
(***************************************************************************)
MaxTokens == 5          \* tokens in a text of ChunkTexts

ChunkTokens ==
    {W("a", 150), W("b", 249), W("d", 1000), SP, DOT, DELIM, BAR}

RECURSIVE TextsUpTo(_)
TextsUpTo(n) ==
    IF n = 0 THEN {<<>>}
    ELSE LET shorter == TextsUpTo(n - 1)
         IN  shorter \cup {Append(t, k) : t \in shorter, k \in ChunkTokens}

ChunkTexts == {t \in TextsUpTo(MaxTokens) : Norm(t) = t}

ChunkPlatform == [macos |-> FALSE, piper |-> TRUE, espeak |-> TRUE]

TranslateJob == [type |-> "translate", input_path |-> "a.wav", output_path |-> "out.mp3"]

ChunkInit ==
    /\ exit_code = "running"
    /\ whisper_model = "WhisperSTT(tiny)"
    /\ whisper_model_en = "WhisperSTT(tiny.en)"
    /\ translator = "pipeline(translation)"
    /\ text_generator = None
    /\ tts_engine = "TextToSpeech"
    /\ platform = ChunkPlatform
    /\ tts_instance = <<Loaded(NewTextToSpeech(DEFAULT_VOICE, ChunkPlatform),
                               LoadChoice(ChunkPlatform))>>
    /\ lines_read = MaxLines
    /\ result = <<>>
    /\ exception = <<>>
    /\ order = <<<<"line", 1>>>>
    /\ \E text \in ChunkTexts :
          \/ /\ pc = "process_job"
             /\ job = Object([type |-> "translate_text", text |-> text])
             /\ line = JsonLine(job)
             /\ locals = NoLocals
             /\ written = <<>>
             /\ job_calls = <<>>
          \/ /\ text # <<>>
             /\ pc = "synthesize_speech"
             /\ job = Object(TranslateJob)
             /\ line = JsonLine(job)
             /\ locals = [transcription |-> [text |-> ShortText, segments |-> <<>>,
                                             language |-> "en"],
                          text_es |-> text, script |-> <<>>]
             /\ written =
                   <<ProgressRecord("stt", 10, <<"Iniciando transcripcion...">>),
                     ProgressRecord("stt", 20, <<"Transcribiendo en ", "en", "...">>),
                     ProgressRecord("stt", 70, <<"Transcripcion completada: ",
                         ToString(StrLen(ShortText)), " caracteres">>),
                     ProgressRecord("translation", 45, <<"Iniciando traduccion...">>),
                     ProgressRecord("translation", 52, <<"Traduciendo ", "1", " chunks...">>),
                     ProgressRecord("translation", 65, <<"Traduccion completada: ",
                         ToString(StrLen(text)), " caracteres">>)>>
             /\ job_calls =
                   <<SttCall(whisper_model_en, "a.wav", "en"),
                     [cap |-> "translator", handle |-> translator,
                      chunks |-> <<ShortText>>]>>

ChunkNext ==
    \/ ProcessJob
    \/ TranslateText
    \/ SynthesizeSpeech
    \/ OnJobException
    \/ PrintResult

ChunkSpec == ChunkInit /\ [][ChunkNext]_vars

(***************************************************************************)
(* normalize_voice on its own: a translate job, with any of the voices of  *)
(* Voices, stands before synthesize_speech on any of the platforms.        *)
(***************************************************************************)
Voices ==
    (DOMAIN VOICE_MIGRATION) \cup PIPER_VOICES
        \cup {"", "no such voice", "es_ES-davefx-medium.onnx", "ES_es-DAVEFX"}

VoiceInit ==
    /\ exit_code = "running"
    /\ whisper_model = "WhisperSTT(tiny)"
    /\ whisper_model_en = "WhisperSTT(tiny.en)"
    /\ translator = "pipeline(translation)"
    /\ text_generator = None
    /\ platform \in Platforms
    /\ \E load_ok \in BOOLEAN :
          LET got == get_tts(<<>>, DEFAULT_VOICE, platform, load_ok)
          IN  /\ tts_instance = got.instance
              /\ tts_engine = IF got.raised THEN None ELSE "TextToSpeech"
    /\ lines_read = MaxLines
    /\ result = <<>>
    /\ exception = <<>>
    /\ order = <<<<"line", 1>>>>
    /\ pc = "synthesize_speech"
    /\ \E voice \in Voices : job = Object(TranslateJob @@ [voice |-> voice])
    /\ line = JsonLine(job)
    /\ locals = [transcription |-> [text |-> ShortText, segments |-> <<>>, language |-> "en"],
                 text_es |-> Translation(ShortText, "short"), script |-> <<>>]
    /\ written =
          <<ProgressRecord("stt", 10, <<"Iniciando transcripcion...">>),
            ProgressRecord("stt", 20, <<"Transcribiendo en ", "en", "...">>),
            ProgressRecord("stt", 70, <<"Transcripcion completada: ",
                ToString(StrLen(ShortText)), " caracteres">>),
            ProgressRecord("translation", 45, <<"Iniciando traduccion...">>),
            ProgressRecord("translation", 52, <<"Traduciendo ", "1", " chunks...">>),
            ProgressRecord("translation", 65, <<"Traduccion completada: ",
                ToString(StrLen(Translation(ShortText, "short"))), " caracteres">>)>>
    /\ job_calls =
          <<SttCall(whisper_model_en, "a.wav", "en"),
            [cap |-> "translator", handle |-> translator, chunks |-> <<ShortText>>]>>

VoiceNext ==
    \/ SynthesizeSpeech
    \/ OnJobException
    \/ PrintResult

VoiceSpec == VoiceInit /\ [][VoiceNext]_vars

(***************************************************************************)
(* Where main() stands.                                                    *)
(***************************************************************************)
LoadingPcs ==
    {"load_models", "load_whisper_en", "load_translator", "load_text_generator", "load_tts"}

\* a job is in flight: a non-blank line was read and its result is not printed
BusyPcs ==
    {"json_decode_error", "main_exception", "process_job", "transcribe_audio",
     "translate_text", "generate_podcast_script", "synthesize_speech", "job_exception",
     "print_result"}

LoopPcs == {"ready"} \cup BusyPcs

\* the line of the current iteration is a job record
WellFormed == line.text = "json" /\ line.value.is_dict

LineType == Get(line.value.fields, "type", None)

IsFailure(r) == IsResult(r) /\ ~r.success /\ "error" \in DOMAIN r /\ Len(r.error) > 0

(***************************************************************************)
(* C1: a job record whose type is none of the seven known ones (a record   *)
(* without a type among them) gets the result success=false with an error  *)
(* message that holds the name of the type; no capability is called, the   *)
(* record is the only one written for the line, and the loop is ready for  *)
(* the next line afterwards.                                               *)
(***************************************************************************)
UnknownLine == WellFormed /\ LineType \notin KnownTypes

C1_UnknownType ==
    /\ [][/\ (pc = "process_job" /\ UnknownLine) =>
                /\ pc' = "print_result"
                /\ Len(result') = 1
                /\ ~result'[1].success
                /\ \E i \in DOMAIN result'[1].error : result'[1].error[i] = Str(LineType)
                /\ written' = <<>>
                /\ job_calls' = <<>>
          /\ (pc = "print_result" /\ UnknownLine) =>
                /\ written' = <<result[1]>>
                /\ pc' = "ready"
                /\ exit_code' = "running"]_vars
    /\ []((pc = "ready" /\ UnknownLine /\ lines_read < MaxLines) => ENABLED ReadLine)

C1_Witness ==
    /\ pc = "ready"
    /\ UnknownLine
    /\ "type" \notin DOMAIN line.value.fields
    /\ written = <<Failure(<<"Tipo de trabajo desconocido: ", "None">>)>>
    /\ ENABLED ReadLine

(***************************************************************************)
(* C2: a non-blank line that is no job record (no JSON, or JSON that is no *)
(* object) gets exactly one record, success=false with an error message;   *)
(* no handle changes, no capability is called, and the loop is ready for   *)
(* the next line.                                                          *)
(***************************************************************************)
Malformed == line.text = "invalid json" \/ (line.text = "json" /\ ~line.value.is_dict)

C2_MalformedLine ==
    [][/\ (Malformed' /\ lines_read' = lines_read + 1) =>
             /\ written' = <<>>
             /\ pc' \in {"json_decode_error", "process_job"}
             /\ handles' = handles
             /\ tts_instance' = tts_instance
       /\ (Malformed /\ pc \in BusyPcs) =>
             /\ handles' = handles
             /\ tts_instance' = tts_instance
             /\ job_calls' = <<>>
             /\ exit_code' = "running"
             /\ \/ pc' = "main_exception" /\ written' = <<>>
                \/ pc' = "ready" /\ Len(written') = 1 /\ IsFailure(written'[1])]_vars

C2_Witness ==
    /\ pc = "ready"
    /\ line = JsonLine(NoObject)
    /\ Len(written) = 1
    /\ IsFailure(written[1])
    /\ ENABLED ReadLine

(***************************************************************************)
(* C3: an exception raised by a capability call or by another step of a    *)
(* job's recipe becomes the result success=false whose error is the        *)
(* message of the exception; main() goes on (no exit), the result is       *)
(* printed and the loop is ready for the next line.                        *)
(***************************************************************************)
StepPcs == {"transcribe_audio", "translate_text", "generate_podcast_script", "synthesize_speech"}

C3_ExceptionBecomesFailure ==
    [][/\ pc \in StepPcs =>
             /\ exit_code' = "running"
             /\ pc' \in LoopPcs
             /\ exception' # <<>> => pc' = "job_exception"
       /\ pc = "job_exception" =>
             /\ Len(exception) = 1
             /\ result' = <<Failure(exception[1])>>
             /\ pc' = "print_result"
             /\ written' = written
       /\ (pc = "print_result" /\ ~result[1].success) =>
             /\ written' = Append(written, result[1])
             /\ pc' = "ready"
             /\ exit_code' = "running"]_vars

C3_Witness ==
    /\ pc = "ready"
    /\ WellFormed
    /\ LineType = "translate"
    /\ \E i \in DOMAIN job_calls : job_calls[i].cap = "translator"
    /\ written # <<>>
    /\ written[Len(written)] = Failure(<<"translation failed">>)
    /\ ENABLED ReadLine

(***************************************************************************)
(* C4: a shutdown job, after whatever jobs came before, gets a success     *)
(* result; that result is the last record written, and no line is read     *)
(* after the shutdown line: main() has ended.                              *)
(***************************************************************************)
ShutdownLine == WellFormed /\ LineType = "shutdown"

C4_Shutdown ==
    [][/\ (pc = "print_result" /\ ShutdownLine) =>
             /\ result = <<Success("shutting_down")>>
             /\ written' = <<result[1]>>
             /\ pc' = "terminated"
             /\ exit_code' = "0"
       /\ pc = "terminated" => UNCHANGED vars]_vars

C4_Witness ==
    /\ pc = "terminated"
    /\ ShutdownLine
    /\ written = <<Success("shutting_down")>>
    /\ lines_read = 2
    /\ Len(order) = 4
    /\ lines_read < MaxLines

(***************************************************************************)
(* C5: for a job record the worker writes exactly one JobResult, after     *)
(* every ProgressEvent of that job; nothing is written between a JobResult *)
(* and the reading of the next line, and no ProgressEvent is written for a *)
(* line that is no job record.  (written holds the records written since   *)
(* the line was read, so they all come after the result of the line        *)
(* before.)                                                                *)
(***************************************************************************)
C5_ProgressBeforeResult ==
    (lines_read > 0 /\ pc \in LoopPcs \cup {"terminated"}) =>
        /\ \A i \in DOMAIN written : IsResult(written[i]) => i = Len(written)
        /\ \A i \in DOMAIN written : IsProgress(written[i]) => WellFormed
        /\ \A i \in DOMAIN written : IsProgress(written[i]) \/ IsResult(written[i])
        /\ pc \in BusyPcs => \A i \in DOMAIN written : IsProgress(written[i])
        /\ (WellFormed /\ pc \in {"ready", "terminated"}) =>
               written # <<>> /\ IsResult(written[Len(written)])

C5_Witness ==
    /\ pc = "ready"
    /\ WellFormed
    /\ LineType = "generate_podcast"
    /\ Len(written) > 10
    /\ written[Len(written)].success
    /\ \A i \in 1..(Len(written) - 1) : IsProgress(written[i])

(***************************************************************************)
(* C6: one job at a time, in order: the non-blank lines read and the       *)
(* JobResults written alternate, line k, result k, line k+1, ..., and a    *)
(* line is read only when the result of every line before it is written.   *)
(***************************************************************************)
C6_OneJobInOrder ==
    /\ \A i \in DOMAIN order :
          order[i] = <<IF i % 2 = 1 THEN "line" ELSE "result", (i + 1) \div 2>>
    /\ pc = "ready" => Len(order) % 2 = 0
    /\ pc \in BusyPcs => Len(order) % 2 = 1

C6_Witness ==
    /\ pc = "print_result"
    /\ order = <<<<"line", 1>>, <<"result", 1>>, <<"line", 2>>, <<"result", 2>>, <<"line", 3>>>>

(***************************************************************************)
(* C7: when the construction of a required capability fails, load_models   *)
(* fails and main() exits with a code other than zero, having read no line *)
(* and written no JobResult.  After load_models a required handle is None  *)
(* exactly when its construction failed or was never reached.              *)
(***************************************************************************)
LoadingOver == pc \notin LoadingPcs

FatalExit ==
    /\ pc = "terminated"
    /\ exit_code = "1"
    /\ lines_read = 0
    /\ \A i \in DOMAIN written : ~IsResult(written[i])

C9_PercentNeverDecreases ==
    (lines_read > 0 /\ pc \in LoopPcs) =>
        \A i, j \in DOMAIN written :
            (i < j /\ IsProgress(written[i]) /\ IsProgress(written[j]))
                => written[i].percent <= written[j].percent

(***************************************************************************)
(* C10: a job of a known type that lacks a required field (or has it       *)
(* empty) is rejected with success=false before any capability is called.  *)
(***************************************************************************)
Falsy(fields, key, empty) == Get(fields, key, empty) \in {None, empty}

MissingRequired(fields) ==
    LET type == Get(fields, "type", None) IN
    \/ type \in {"transcribe", "translate"} /\ Falsy(fields, "input_path", "")
    \/ type \in {"translate", "generate_podcast"} /\ Falsy(fields, "output_path", "")
    \/ type \in {"generate_script", "generate_podcast"} /\ Get(fields, "articles", <<>>) = <<>>
    \/ type = "translate_text" /\ Get(fields, "text", <<>>) = <<>>

C10_RejectedBeforeBackends ==
    (WellFormed /\ pc \in LoopPcs /\ MissingRequired(line.value.fields)) =>
        /\ job_calls = <<>>
        /\ result # <<>> => ~result[1].success

(***************************************************************************)
(* C11: every JobResult written has exactly one of the fields `result` and *)
(* `error`: `result` alone when success is true, `error` alone when it is  *)
(* false.                                                                  *)
(***************************************************************************)
ResultXorError(r) ==
    /\ r.success => ("result" \in DOMAIN r /\ "error" \notin DOMAIN r)
    /\ ~r.success => ("error" \in DOMAIN r /\ "result" \notin DOMAIN r)

C11_ResultXorError ==
    \A i \in DOMAIN written : IsResult(written[i]) => ResultXorError(written[i])

\* the second result written is a failure from process_job's except clause,
\* raised after a capability was called
C11_Witness ==
    /\ pc = "ready"
    /\ written # <<>>
    /\ IsResult(written[Len(written)])
    /\ ~written[Len(written)].success
    /\ DOMAIN written[Len(written)] = {"success", "error"}
    /\ job_calls # <<>>
    /\ \E i \in DOMAIN order : order[i] = <<"result", 2>>

(***************************************************************************)
(* C12: the worker only takes the transitions of the lifecycle             *)
(* Loading -> Ready <-> Busy -> ShuttingDown -> Terminated.  Busy is       *)
(* entered only from Ready, by reading a job record; Ready is re-entered   *)
(* only when the job's result has been written; Terminated is absorbing.   *)
(* A line that is no job record is answered without leaving Ready.         *)
(* ShuttingDown is the instant between the print of line 381 and the break *)
(* of line 385, inside the step PrintResult.                               *)
(***************************************************************************)
Phase ==
    CASE pc \in LoadingPcs -> "Loading"
      [] pc = "terminated" -> "Terminated"
      [] pc \in BusyPcs /\ WellFormed -> "Busy"
      [] OTHER -> "Ready"

LifecycleSteps ==
    /\ Phase = "Loading" => Phase' \in {"Loading", "Ready", "Terminated"}
    /\ Phase = "Ready" => Phase' \in {"Ready", "Busy", "Terminated"}
    /\ Phase = "Busy" => Phase' \in {"Busy", "Ready", "Terminated"}
    /\ Phase = "Terminated" => UNCHANGED vars
    /\ (Phase # "Busy" /\ Phase' = "Busy") =>
           /\ pc = "ready"
           /\ lines_read' = lines_read + 1
           /\ WellFormed'
    /\ (Phase = "Busy" /\ Phase' = "Ready") =>
           /\ written' # <<>>
           /\ written'[Len(written')] = result[1]
           /\ order' = Append(order, <<"result", NonBlankRead>>)

FailedInitialization ==
    /\ Phase = "Loading"
    /\ exit_code' = "1"
    /\ lines_read = 0

AfterShutdownResult ==
    /\ Phase = "Busy"
    /\ LineType = "shutdown"
    /\ written' = <<Success("shutting_down")>>
    /\ exit_code' = "0"

AtEndOfInput ==
    /\ pc = "ready"
    /\ exit_code' = "0"
    /\ UNCHANGED written

\* C12 as claimed: Terminated only after a shutdown job or a failed initialization
C12_LifecycleShutdownOnly ==
    [][/\ LifecycleSteps
       /\ (Phase # "Terminated" /\ Phase' = "Terminated") =>
              (FailedInitialization \/ AfterShutdownResult)]_vars

\* C12 as the code has it: the loop also ends, and main() returns, when stdin
\* is at its end while the worker is Ready
C12_Lifecycle ==
    [][/\ LifecycleSteps
       /\ (Phase # "Terminated" /\ Phase' = "Terminated") =>
              (FailedInitialization \/ AfterShutdownResult \/ AtEndOfInput)]_vars

\* the worker went Ready -> Busy -> Ready for a job and ended at the end of input
C12_Witness ==
    /\ pc = "terminated"
    /\ exit_code = "0"
    /\ WellFormed
    /\ LineType = "ping"
    /\ written = <<Success("pong")>>
    /\ lines_read = 1

(***************************************************************************)
(* What the chunking was given and what it handed to the backends.         *)
(***************************************************************************)
\* the sentences of a text: its pieces between ". ", trimmed, blank pieces left out
RECURSIVE SentencesFrom(_, _, _)
SentencesFrom(str, cur, acc) ==
    LET close(piece) == IF IsBlank(piece) THEN acc ELSE Append(acc, Strip(piece))
    IN  IF str = <<>> THEN close(cur)
        ELSE IF Head(str) = DELIM
        THEN SentencesFrom(Tail(str), <<>>, Append(acc, Strip(Append(cur, DOT))))
        ELSE SentencesFrom(Tail(str), Append(cur, Head(str)), acc)

Sentences(text) == SentencesFrom(text, <<>>, <<>>)

\* the sentences of the chunks, chunk after chunk
RECURSIVE SentencesOfChunks(_)
SentencesOfChunks(chunks) ==
    IF chunks = <<>> THEN <<>>
    ELSE Sentences(Head(chunks)) \o SentencesOfChunks(Tail(chunks))

\* the chunks the translation model was called with in this iteration
SentToTranslator ==
    LET calls == SelectSeq(job_calls, LAMBDA c : c.cap = "translator")
    IN  IF calls = <<>> THEN <<>> ELSE calls[Len(calls)].chunks

\* the chunks the speech engine was called with in this iteration, in order
SentToEngine ==
    LET calls == SelectSeq(job_calls, LAMBDA c : c.cap = "tts")
    IN  [i \in 1..Len(calls) |-> calls[i].chunk]

\* a translate_text job went through translate_text without an exception
TranslatedText ==
    /\ pc = "print_result"
    /\ LineType = "translate_text"
    /\ result[1].success

\* a translate job went through synthesize_speech without an exception
SynthesizedText ==
    /\ pc = "print_result"
    /\ LineType = "translate"
    /\ result[1].success

(***************************************************************************)
(* C13: the chunking neither loses nor reorders text: the sentences of the *)
(* chunks handed on, in order, are the sentences of the text (its pieces   *)
(* between ". "), so that each sentence lies wholly in one chunk.          *)
(***************************************************************************)
C13_ChunkingKeepsSentences ==
    /\ TranslatedText => SentencesOfChunks(SentToTranslator) = Sentences(Field("text", <<>>))
    /\ SynthesizedText => SentencesOfChunks(SentToEngine) = Sentences(locals.text_es)


(***************************************************************************)
(* C14: every chunk is at most as long as the threshold (400 for the       *)
(* translation, 2000 for the synthesis), unless it is a single sentence    *)
(* that is longer than the threshold by itself.                            *)
(***************************************************************************)
WithinThreshold(chunks, max_chars) ==
    \A i \in DOMAIN chunks :
        \/ StrLen(chunks[i]) <= max_chars
        \/ Len(Sentences(chunks[i])) = 1

C14_ChunkLength ==
    /\ TranslatedText => WithinThreshold(SentToTranslator, MaxChunkLength)
    /\ SynthesizedText => WithinThreshold(SentToEngine, MAX_CHARS)

\* a sentence of 1001 characters went to the translation model as a chunk of
\* its own, the sentence after it as the next chunk
C14_Witness ==
    /\ TranslatedText
    /\ Len(SentToTranslator) = 2
    /\ StrLen(SentToTranslator[1]) > MaxChunkLength
    /\ StrLen(SentToTranslator[2]) <= MaxChunkLength
    /\ Sentences(Field("text", <<>>)) = SentToTranslator

(***************************************************************************)
(* C15: translate_text uses one translation per chunk it sent, and returns *)
(* the translations in the order of the chunks with one space between two  *)
(* of them.                                                                *)
(***************************************************************************)
\* the chunks the translation words of a text translate, in the order of the text
RECURSIVE TranslatedFrom(_)
TranslatedFrom(str) ==
    IF str = <<>> THEN <<>>
    ELSE (IF Head(str).src # <<>> THEN <<Head(str).src>> ELSE <<>>) \o TranslatedFrom(Tail(str))

\* parts[1] + " " + parts[2] + " " + ... + parts[n]
RECURSIVE SingleSpaced(_)
SingleSpaced(parts) ==
    IF parts = <<>> THEN <<>>
    ELSE IF Len(parts) = 1 THEN parts[1]
    ELSE parts[1] \o <<SP>> \o SingleSpaced(Tail(parts))

C15_TranslationsJoinedInOrder ==
    TranslatedText =>
        LET sent == SentToTranslator
            translated == result[1].result.translated
        IN  /\ TranslatedFrom(translated) = sent
            /\ \E mode \in {"short", "long"} :
                  translated = Norm(SingleSpaced([i \in 1..Len(sent) |->
                                                     Translation(sent[i], mode)]))

\* three chunks c1, c2, c3 came back as "ta tb tc"
C15_Witness ==
    /\ TranslatedText
    /\ Len(SentToTranslator) = 3
    /\ LET c == SentToTranslator
       IN  result[1].result.translated =
               Translation(c[1], "short") \o <<SP>> \o Translation(c[2], "short")
                   \o <<SP>> \o Translation(c[3], "short")

RECURSIVE TitlesIn(_)
TitlesIn(script) ==
    IF script = <<>> THEN <<>>
    ELSE (IF Head(script).s \in {"Title one", "Title two", "Sin titulo"}
          THEN <<Head(script).s>> ELSE <<>>) \o TitlesIn(Tail(script))

TitleOf(article) == Strip(Get(article, "title", <<W("Sin titulo", 10)>>))[1].s

\* a generate_script job is about to hand its result to main
ScriptJobDone == pc = "print_result" /\ LineType = "generate_script"

C17_FirstFiveArticles ==
    ScriptJobDone =>
        LET articles == Field("articles", <<>>)
            n == Len(articles)
            k == IF n < 5 THEN n ELSE 5
        IN  /\ n = 0 => /\ result[1] = Failure(<<"No se proporcionaron articulos">>)
                        /\ written = <<>>
            /\ (n >= 1 /\ \A i \in 1..k : IsDict(articles[i])) =>
                   /\ result[1].success
                   /\ TitlesIn(result[1].result.script) = [i \in 1..k |-> TitleOf(articles[i])]
                   /\ result[1].result.script =
                          Norm(SingleSpaced(<<Intro>> \o
                                            [i \in 1..k |-> Segment(articles[i], i - 1, k)] \o
                                            <<Outro>>))

\* seven articles were given and the script names the first five
C17_Witness ==
    /\ ScriptJobDone
    /\ Len(Field("articles", <<>>)) = 7
    /\ result[1].success
    /\ TitlesIn(result[1].result.script) =
           <<"Title one", "Title two", "Sin titulo", "Title one", "Title two">>

(***************************************************************************)
(* C18: a translate job in which no capability fails returns success with  *)
(* text_en the transcript, text_es the translations of the transcript's    *)
(* chunks joined by one space, and output_path the path asked for; the     *)
(* synthesis was called with that text_es and that output_path.            *)
(***************************************************************************)
\* the calls of tts_utils.synthesize_speech made in this iteration
SynthesizeCalls == SelectSeq(job_calls, LAMBDA c : c.cap = "synthesize")

C18_TranslateResult ==
    SynthesizedText =>
        LET r == result[1].result
            transcript == locals.transcription.text
            chunks == ValidChunks(TranslateChunks(transcript))
        IN  /\ r.text_en = transcript
            /\ SentToTranslator = chunks
            /\ \E mode \in {"short", "long"} :
                  r.text_es = Norm(SingleSpaced([i \in 1..Len(chunks) |->
                                                    Translation(chunks[i], mode)]))
            /\ r.output_path = Field("output_path", None)
            /\ Len(SynthesizeCalls) = 1
            /\ SynthesizeCalls[1].text = r.text_es
            /\ SynthesizeCalls[1].output_path = r.output_path

\* a transcript of two chunks was translated and synthesized to out.mp3
C18_Witness ==
    /\ SynthesizedText
    /\ locals.transcription.text = TwoSentences
    /\ Len(SentToTranslator) = 2
    /\ result[1].result.output_path = "out.mp3"
    /\ Len(SentToEngine) >= 1
    /\ written[Len(written)].percent = 98

(***************************************************************************)
(* C19: normalize_voice answers a key of the voice catalogue: the target   *)
(* of a legacy identifier, a catalogue key itself, the default voice for   *)
(* anything else.                                                          *)
(***************************************************************************)
C19_NormalizedVoice ==
    \A i \in DOMAIN SynthesizeCalls :
        LET voice == Field("voice", DEFAULT_VOICE)
            voice_id == SynthesizeCalls[i].voice
        IN  /\ voice_id \in PIPER_VOICES
            /\ voice \in DOMAIN VOICE_MIGRATION => voice_id = VOICE_MIGRATION[voice]
            /\ voice \in PIPER_VOICES => voice_id = voice
            /\ voice \notin (DOMAIN VOICE_MIGRATION) \cup PIPER_VOICES
                   => voice_id = "es_ES-davefx"

\* a voice that is neither legacy nor in the catalogue went to the synthesis
\* as the default voice
C19_Witness ==
    /\ SynthesizeCalls # <<>>
    /\ Field("voice", DEFAULT_VOICE) = "es_ES-davefx-medium.onnx"
    /\ SynthesizeCalls[1].voice = "es_ES-davefx"
    /\ pc = "print_result"

(***************************************************************************)
(* C20: a generate_script or generate_podcast job prints the same progress *)
(* records and returns the same result whether the text generator was      *)
(* loaded or not, and the text generator is never called: the records and  *)
(* the result of such a job are the ScriptJobOutcome of the job both with  *)
(* the loaded handle and with None, the speech engine behaving the same    *)
(* way, and no call of the job is a call of the text generator.            *)
(***************************************************************************)
Generators == {None, "pipeline(text-generation)"}

ScriptLine == WellFormed /\ LineType \in {"generate_script", "generate_podcast"}

GeneratorNeverCalled ==
    \A i \in DOMAIN job_calls :
        job_calls[i].cap \in {"stt", "translator", "synthesize", "tts"}

C20_GeneratorDoesNotInterfere ==
    /\ GeneratorNeverCalled
    /\ (pc = "print_result" /\ ScriptLine) =>
           \E load_ok, engine_ok, export_ok \in BOOLEAN :
               \A generator \in Generators :
                   LET o == ScriptJobOutcome(job.fields, generator,
                                             load_ok, engine_ok, export_ok)
                   IN  written = o.written /\ result[1] = o.result

\* a podcast was generated by a worker whose text generator is loaded
C20_Witness ==
    /\ pc = "print_result"
    /\ LineType = "generate_podcast"
    /\ text_generator # None
    /\ result[1].success
    /\ written[Len(written)].percent = 100
    /\ Len(Field("articles", <<>>)) = 3
(***************************************************************************)
(* C21: the capability handles are written during initialization only.     *)
(* Once load_models has returned, no step of main() or of a job, whether   *)
(* the job succeeds, is rejected or fails with an exception of a backend,  *)
(* changes whisper_model, whisper_model_en, translator, text_generator,    *)
(* tts_engine or the singleton of tts_utils.                               *)
(***************************************************************************)
C21_HandlesWrittenAtInitializationOnly ==
    [][LoadingOver => UNCHANGED <<handles, tts_instance>>]_vars

\* the last job of a worker whose speech engine did not load has failed in a
\* call of a backend
C21_Witness ==
    /\ pc = "print_result"
    /\ lines_read = MaxLines
    /\ ~result[1].success
    /\ job_calls # <<>>
    /\ tts_engine = None
    /\ tts_instance # <<>>


(***************************************************************************)
(* C22: when the text generator fails to load and the other capabilities   *)
(* load, load_models still succeeds: it goes on to the speech engine,      *)
(* writes the ready status, leaves text_generator None, and main() enters  *)
(* its loop over stdin instead of exiting with code 1.                     *)
(***************************************************************************)
TextGeneratorFailed ==
    \E i \in DOMAIN written :
        written[i] = StatusRecord("loading",
                         <<"Generador de texto no disponible: ", "load failed">>)

ReadyStatus == StatusRecord("ready", <<"Todos los modelos cargados correctamente">>)

C22_OptionalGeneratorFailure ==
    /\ []((lines_read = 0 /\ TextGeneratorFailed) =>
             /\ text_generator = None
             /\ exit_code # "1"
             /\ {whisper_model, whisper_model_en, translator} \cap {None} = {}
             /\ \/ pc = "load_tts"
                \/ /\ pc \in {"ready", "terminated"}
                   /\ written[Len(written)] = ReadyStatus)
    /\ [][(TextGeneratorFailed /\ pc = "load_tts") =>
             (pc' = "ready" /\ text_generator' = None /\ exit_code' = "running")]_vars

\* the text generator failed, everything else loaded, main() is at its loop
C22_Witness ==
    /\ pc = "ready"
    /\ lines_read = 0
    /\ TextGeneratorFailed
    /\ text_generator = None
    /\ tts_engine # None
    /\ written[Len(written)] = ReadyStatus


(***************************************************************************)
(* C23: the status records all come before the first progress record and   *)
(* the first result.  Until the first line is read the output holds status *)
(* records only: "loading" records while load_models runs, then one last   *)
(* record, "ready" when load_models returned True and "error" when it      *)
(* returned False.  No line is read before "ready" was written, and no     *)
(* status record is written once a line was read.                          *)
(***************************************************************************)
\* the records are "loading" status records, but for the last one when `last` is given
LoadingThen(records, last) ==
    /\ \A i \in DOMAIN records : IsStatus(records[i])
    /\ IF last = None
       THEN \A i \in DOMAIN records : records[i].status = "loading"
       ELSE /\ records # <<>>
            /\ records[Len(records)].status = last
            /\ \A i \in 1..(Len(records) - 1) : records[i].status = "loading"

StatusStream ==
    IF lines_read = 0
    THEN CASE pc \in LoadingPcs -> LoadingThen(written, None)
           [] pc = "terminated" /\ exit_code = "1" -> LoadingThen(written, "error")
           [] OTHER -> LoadingThen(written, "ready")
    ELSE \A i \in DOMAIN written : ~IsStatus(written[i])

C23_StatusBeforeJobs ==
    /\ [](StatusStream /\ (exit_code = "1" => lines_read = 0))
    /\ [][lines_read' # lines_read =>
             /\ pc = "ready"
             /\ lines_read = 0 => LoadingThen(written, "ready")]_vars

\* the first job was read after the load, and has written a progress record and
\* no status record
C23_Witness ==
    /\ lines_read = 1
    /\ pc = "print_result"
    /\ written # <<>>
    /\ \A i \in DOMAIN written : IsProgress(written[i])

(***************************************************************************)
(* C24: a ping job, whatever lines came before it, returns exactly         *)
(* {success: true, result: "pong"}: it writes no progress record, calls no *)
(* capability, and the one record of its loop iteration is that result.    *)
(***************************************************************************)
PingLine == WellFormed /\ LineType = "ping"

Pong == [success |-> TRUE, result |-> "pong"]

C24_PingReturnsPong ==
    PingLine =>
        /\ job_calls = <<>>
        /\ exception = <<>>
        /\ CASE pc = "process_job" -> written = <<>>
             [] pc = "print_result" -> written = <<>> /\ result = <<Pong>>
             [] pc \in {"ready", "terminated"} -> written = <<Pong>>
             [] OTHER -> FALSE

\* the answer to a ping that is the last of MaxLines lines has been written
C24_Witness ==
    /\ PingLine
    /\ lines_read = MaxLines
    /\ pc = "ready"
    /\ written = <<Pong>>
    /\ tts_engine = None


(***************************************************************************)
(* The worker in a changing environment: after load_models, piper may      *)
(* become importable or stop being so and espeak may appear on PATH or     *)
(* leave it (is_piper_available, is_espeak_available are asked anew by     *)
(* every call of get_tts_backend).  platform.system() is one value for the *)
(* life of a process, so the answer of is_macos stays.                     *)
(***************************************************************************)
ProbesChange ==
    /\ LoadingOver
    /\ pc # "terminated"
    /\ \E piper, espeak \in BOOLEAN :
          /\ platform' = [platform EXCEPT !.piper = piper, !.espeak = espeak]
          /\ platform' # platform
    /\ UNCHANGED <<pc, exit_code, handles, tts_instance, io, written>>

EngineNext == Next \/ ProbesChange

EngineSpec == Init /\ [][EngineNext]_vars

(***************************************************************************)
(* C25: the speech engine is chosen once, by load().  Every call of an     *)
(* engine made by a job is a call of the engine load() chose for the       *)
(* singleton, the one its backend field names, whatever the probes answer  *)
(* when the call is made.                                                  *)
(***************************************************************************)
\* the engine load() left in the instance: "none" when load() raised
LoadedChoice(inst) ==
    IF inst.engine THEN "pyttsx3"
    ELSE IF inst.piper_voice THEN "piper"
    ELSE IF inst.espeak_cmd THEN "espeak"
    ELSE "none"

BackendName(choice) == IF choice = "piper" THEN "piper-tts" ELSE choice

EngineCalls == SelectSeq(job_calls, LAMBDA c : c.cap = "tts")

C25_EngineSelectedOnce ==
    \A i \in DOMAIN EngineCalls :
        /\ tts_instance # <<>>
        /\ EngineCalls[i].engine = LoadedChoice(tts_instance[1])
        /\ BackendName(EngineCalls[i].engine) = tts_instance[1].backend

\* piper was loaded and has been called although piper is no longer
\* importable and espeak is on PATH
C25_Witness ==
    /\ EngineCalls # <<>>
    /\ EngineCalls[1].engine = "piper"
    /\ ~platform.piper
    /\ platform.espeak
    /\ pc = "print_result"
    /\ result[1].success


(***************************************************************************)
(* C26: a translate job calls its capabilities in the order speech-to-text,*)
(* translation, synthesis, each at most once and each after the one before *)
(* has returned.  When one of them raises, none of the later ones is       *)
(* called and the result of the job has success = false; the result has    *)
(* success = true only when the three steps have returned.                 *)
(***************************************************************************)
TranslateLine == WellFormed /\ LineType = "translate"

\* the place of a call in the pipeline of lines 266-273
Rank(cap) ==
    CASE cap = "stt" -> 1
      [] cap = "translator" -> 2
      [] OTHER -> 3

Called(cap) == \E i \in DOMAIN job_calls : job_calls[i].cap = cap

\* the last progress record of a step is written right before it returns
StepReturned(stage, percent) ==
    \E i \in DOMAIN written :
        IsProgress(written[i]) /\ written[i].stage = stage /\ written[i].percent = percent

SttReturned == StepReturned("stt", 70)
TranslationReturned == StepReturned("translation", 65)
SynthesisReturned == StepReturned("tts", 98)

C26_TranslatePipelineOrder ==
    TranslateLine =>
        /\ \A i, j \in DOMAIN job_calls :
              i < j => /\ Rank(job_calls[i].cap) <= Rank(job_calls[j].cap)
                       /\ job_calls[i].cap = job_calls[j].cap => job_calls[i].cap = "tts"
        /\ Called("translator") => SttReturned
        /\ TranslationReturned => SttReturned
        /\ (Called("synthesize") \/ Called("tts")) => TranslationReturned
        /\ SynthesisReturned => Called("synthesize")
        /\ pc = "print_result" =>
              /\ result[1].success <=> SynthesisReturned
              /\ result[1].success => (Called("stt") /\ Called("synthesize"))

\* the translation of a translate job raised: the job has failed and the
\* synthesis was not called
C26_Witness ==
    /\ TranslateLine
    /\ pc = "print_result"
    /\ ~result[1].success
    /\ Called("stt") /\ Called("translator")
    /\ SttReturned /\ ~TranslationReturned
    /\ ~Called("synthesize")


(***************************************************************************)
(* C27: the script made from n used articles, 1 <= n <= 5, is the fixed    *)
(* introduction, one sentence per article in the order of the input, and   *)
(* the fixed closing, joined by single spaces.  The sentence of the first  *)
(* article opens with "Nuestra primera noticia:" (also when n = 1), the    *)
(* sentence of the last of n >= 2 articles with "Y para cerrar:", and each *)
(* sentence in between with one of the five connective phrases.            *)
(***************************************************************************)
OpeningPhrase == W("Nuestra primera noticia:", 24)
ClosingPhrase == W("Y para cerrar:", 14)

\* the sentence of an article after the phrase that opens it
Sentence(phrase, article) ==
    <<phrase, SP>> \o Strip(Get(article, "title", <<W("Sin titulo", 10)>>)) \o
    <<DOT, SP>> \o CleanSummary(article)

\* the scripts the claim allows for the articles: one for each choice of the
\* connective phrases of the articles in between
AllowedScripts(articles) ==
    LET n == Len(articles)
        between == 2..(n - 1)
    IN  {Norm(SingleSpaced(<<Intro>> \o
                  [k \in 1..n |->
                      Sentence(IF k = 1 THEN OpeningPhrase
                               ELSE IF k = n THEN ClosingPhrase
                               ELSE Transitions[connective[k]],
                               articles[k])] \o
                  <<Outro>>)) :
            connective \in [between -> DOMAIN Transitions]}

C27_ScriptPhrasing ==
    (pc = "print_result" /\ ScriptLine /\ result[1].success) =>
        LET used == FirstArticles(Field("articles", <<>>))
        IN  /\ Len(used) \in 1..5
            /\ result[1].result.script \in AllowedScripts(used)

\* a script of five articles: an opening, three connectives, a closing
C27_Witness ==
    /\ pc = "print_result"
    /\ LineType = "generate_script"
    /\ result[1].success
    /\ Len(Field("articles", <<>>)) = 7
    /\ \E i \in DOMAIN result[1].result.script :
           result[1].result.script[i] = Transitions[4]
    /\ \E i \in DOMAIN result[1].result.script :
           result[1].result.script[i] = ClosingPhrase


(***************************************************************************)
(* The script of one article on its own: a generate_script job whose one   *)
(* article has a summary, or a description, drawn from the texts of up to  *)
(* MaxSummaryTokens tokens with lengths on both sides of 300.              *)
(***************************************************************************)
MaxSummaryTokens == 4   \* tokens in a summary of SummaryTexts

SummaryTokens ==
    {W("a", 297), W("b", 299), W("c", 2), SP, DOT, DELIM, TAG("<p>", 3), TAG("<br>", 4)}

RECURSIVE SummariesUpTo(_)
SummariesUpTo(n) ==
    IF n = 0 THEN {<<>>}
    ELSE LET shorter == SummariesUpTo(n - 1)
         IN  shorter \cup {Append(t, k) : t \in shorter, k \in SummaryTokens}

SummaryTexts == {t \in SummariesUpTo(MaxSummaryTokens) : Norm(t) = t}

SummaryTitle == W("Title one", 9)

SummaryInit ==
    /\ exit_code = "running"
    /\ whisper_model = "WhisperSTT(tiny)"
    /\ whisper_model_en = "WhisperSTT(tiny.en)"
    /\ translator = "pipeline(translation)"
    /\ text_generator = None
    /\ tts_engine = "TextToSpeech"
    /\ platform = ChunkPlatform
    /\ tts_instance = <<Loaded(NewTextToSpeech(DEFAULT_VOICE, ChunkPlatform),
                               LoadChoice(ChunkPlatform))>>
    /\ lines_read = MaxLines
    /\ result = <<>>
    /\ exception = <<>>
    /\ order = <<<<"line", 1>>>>
    /\ pc = "process_job"
    /\ locals = NoLocals
    /\ written = <<>>
    /\ job_calls = <<>>
    /\ \E text \in SummaryTexts, key \in {"summary", "description"} :
          LET article == [title |-> <<SummaryTitle>>] @@ (key :> text)
          IN  job = Object([type |-> "generate_script", articles |-> <<article>>])
    /\ line = JsonLine(job)

SummaryNext ==
    \/ ProcessJob
    \/ GeneratePodcastScript
    \/ PrintResult

SummarySpec == SummaryInit /\ [][SummaryNext]_vars

(***************************************************************************)
(* C28: the summary of an article as the script has it is at most 300      *)
(* characters long.  A cleaned summary of at most 300 characters is in the *)
(* script as it is; a longer one is there as its first 297 characters      *)
(* followed by "...", 300 characters in all.                               *)
(***************************************************************************)
\* the summary of the job's article: stripped, without markup, single-spaced
Cleaned ==
    LET article == Field("articles", <<>>)[1]
    IN  NormalizeSpaces(RemoveMarkup(Strip(Get(article, "summary",
                                               Get(article, "description", <<>>)))))

\* what stands in a script of one article between "<title>. " and " <closing>",
\* character by character
PlacedSummary(script) ==
    LET chars == Expand(script)
        first == (CHOOSE i \in DOMAIN chars : chars[i] = SummaryTitle) + 3
        last == (CHOOSE i \in DOMAIN chars : chars[i] = Outro[1]) - 2
    IN  SubSeq(chars, first, last)

C28_SummaryLength ==
    (pc = "print_result" /\ LineType = "generate_script" /\ Len(Field("articles", <<>>)) = 1) =>
        /\ result[1].success
        /\ LET placed == PlacedSummary(result[1].result.script)
           IN  /\ StrLen(placed) <= 300
               /\ StrLen(Cleaned) <= 300 => placed = Expand(Cleaned)
               /\ StrLen(Cleaned) > 300 =>
                     /\ placed = Expand(Take(Cleaned, 297)) \o <<DOT, DOT, DOT>>
                     /\ StrLen(placed) = 300

\* a summary of 301 characters after cleaning is in the script as 297
\* characters and the marker
C28_Witness ==
    /\ pc = "print_result"
    /\ LineType = "generate_script"
    /\ StrLen(Cleaned) = 301
    /\ Len(Cleaned) = 3
    /\ StrLen(PlacedSummary(result[1].result.script)) = 300


(***************************************************************************)
(* The speech-to-text step on its own: a transcribe or a translate job     *)
(* whose language field is absent or one of Languages, on a readable or an *)
(* unreadable file, in a worker whose models are loaded.                   *)
(***************************************************************************)
Languages == {"en", "es", "EN", "en-US", "", None}

SttJobs ==
    {[type |-> type, input_path |-> path, output_path |-> "out.mp3"] :
         type \in {"transcribe", "translate"}, path \in {"a.wav", "missing.wav"}}

LanguageInit ==
    /\ exit_code = "running"
    /\ whisper_model = "WhisperSTT(tiny)"
    /\ whisper_model_en = "WhisperSTT(tiny.en)"
    /\ translator = "pipeline(translation)"
    /\ text_generator = None
    /\ tts_engine = "TextToSpeech"
    /\ platform = ChunkPlatform
    /\ tts_instance = <<Loaded(NewTextToSpeech(DEFAULT_VOICE, ChunkPlatform),
                               LoadChoice(ChunkPlatform))>>
    /\ lines_read = MaxLines
    /\ result = <<>>
    /\ exception = <<>>
    /\ order = <<<<"line", 1>>>>
    /\ pc = "process_job"
    /\ locals = NoLocals
    /\ written = <<>>
    /\ job_calls = <<>>
    /\ \E fields \in SttJobs :
          \/ job = Object(fields)
          \/ \E language \in Languages : job = Object(fields @@ [language |-> language])
    /\ line = JsonLine(job)

LanguageNext ==
    \/ ProcessJob
    \/ TranscribeAudio
    \/ TranslateText
    \/ SynthesizeSpeech
    \/ OnJobException
    \/ PrintResult

LanguageSpec == LanguageInit /\ [][LanguageNext]_vars

(***************************************************************************)
(* C29: a transcribe job calls the English speech-to-text model exactly    *)
(* when its language is "en", which it is when the job has no language     *)
(* field, and the general model for any other language; the call is made   *)
(* with the language of the job.  A translate job calls the English model  *)
(* with language "en" whatever its fields are.  Either job makes the one   *)
(* call.                                                                   *)
(***************************************************************************)
SttCalls == SelectSeq(job_calls, LAMBDA c : c.cap = "stt")

C29_SttHandleByLanguage ==
    (WellFormed /\ LineType \in {"transcribe", "translate"}) =>
        LET requested == IF LineType = "translate" THEN "en"
                         ELSE IF "language" \in DOMAIN job.fields THEN job.fields.language
                         ELSE "en"
        IN  /\ Len(SttCalls) = IF pc \in {"process_job", "transcribe_audio"} THEN 0 ELSE 1
            /\ \A i \in DOMAIN SttCalls :
                  /\ SttCalls[i].language = requested
                  /\ SttCalls[i].handle = "WhisperSTT(tiny.en)" <=> requested = "en"
                  /\ SttCalls[i].handle = "WhisperSTT(tiny)" <=> requested # "en"

\* a translate job that asks for Spanish has called the English model
C29_Witness ==
    /\ LineType = "translate"
    /\ Get(job.fields, "language", None) = "es"
    /\ pc = "print_result"
    /\ result[1].success
    /\ SttCalls = <<SttCall("WhisperSTT(tiny.en)", "a.wav", "en")>>


(***************************************************************************)
(* tts_utils on its own: a caller that calls get_tts up to MaxGetTtsCalls  *)
(* times, each time with a voice of Voices, on any platform; load() may    *)
(* raise.  job_calls has the calls with what they returned.                *)
(***************************************************************************)
MaxGetTtsCalls == 3     \* calls of get_tts in a behaviour of SingletonSpec

SingletonInit ==
    /\ pc = "get_tts"
    /\ exit_code = "running"
    /\ whisper_model = None
    /\ whisper_model_en = None
    /\ translator = None
    /\ text_generator = None
    /\ tts_engine = None
    /\ tts_instance = <<>>
    /\ platform \in Platforms
    /\ lines_read = 0
    /\ line = BlankLine
    /\ job = NoObject
    /\ locals = NoLocals
    /\ result = <<>>
    /\ exception = <<>>
    /\ written = <<>>
    /\ job_calls = <<>>
    /\ order = <<>>

\* get_tts(voice), lines 388-404
GetTts ==
    /\ pc = "get_tts"
    /\ Len(job_calls) < MaxGetTtsCalls
    /\ \E voice \in Voices, load_ok \in BOOLEAN :
          LET got == get_tts(tts_instance, voice, platform, load_ok)
          IN  /\ tts_instance' = got.instance
              /\ job_calls' = Append(job_calls,
                                  [cap |-> "get_tts", voice |-> voice, raised |-> got.raised,
                                   returned |-> IF got.raised THEN <<>> ELSE got.instance])
    /\ UNCHANGED <<pc, exit_code, handles, platform, lines_read, line, job, locals, result,
                   exception, written, order>>

SingletonNext == GetTts

SingletonSpec == SingletonInit /\ [][SingletonNext]_vars

(***************************************************************************)
(* C30: get_tts is a singleton.  Whatever voices it is called with, it     *)
(* builds a TextToSpeech only when there is none, so at most one in the    *)
(* life of the process, and every call that returns returns that instance, *)
(* with the voice of the first call.                                       *)
(***************************************************************************)
GetTtsCalls == SelectSeq(job_calls, LAMBDA c : c.cap = "get_tts")

C30_Singleton ==
    /\ [](/\ Len(tts_instance) <= 1
          /\ GetTtsCalls # <<>> =>
                /\ tts_instance # <<>>
                /\ tts_instance[1].voice = normalize_voice(GetTtsCalls[1].voice)
          /\ \A i \in DOMAIN GetTtsCalls :
                /\ ~GetTtsCalls[i].raised => GetTtsCalls[i].returned = tts_instance
                /\ GetTtsCalls[i].raised => i = 1)
    /\ [][tts_instance # <<>> => tts_instance' = tts_instance]_vars

\* three calls with three voices have returned the instance of the first
C30_Witness ==
    /\ Len(GetTtsCalls) = 3
    /\ GetTtsCalls[1].voice = "es_MX-claude"
    /\ GetTtsCalls[2].voice = "no such voice"
    /\ GetTtsCalls[3].voice = "es_ES-davefx"
    /\ \A i \in 1..3 : ~GetTtsCalls[i].raised
    /\ tts_instance[1].voice = GetTtsCalls[1].voice


(***************************************************************************)
(* process_translation.py, the one-shot pipeline: main() after parse_args  *)
(* with the stages transcribe_audio, translate_text and synthesize_speech  *)
(* of that script.  job holds the arguments, locals the texts, job_calls   *)
(* the calls of the engines and the answers of os.path.exists.             *)
(***************************************************************************)
MaxSegments == 2        \* segments the speech-to-text engine returns

OneShotArgs ==
    {[input_audio |-> i, output_audio |-> o, voice |-> v] :
         i \in {"a.wav", "missing.wav"}, o \in {"out.wav", "out.mp3"},
         v \in {"es-ES-AlvaroNeural", "es-MX-JorgeNeural"}}

OneShotInit ==
    /\ pc = "one_shot_main"
    /\ exit_code = "running"
    /\ whisper_model = None
    /\ whisper_model_en = None
    /\ translator = None
    /\ text_generator = None
    /\ tts_engine = None
    /\ tts_instance = <<>>
    /\ platform \in {p \in Platforms : ~p.macos /\ p.piper}
    /\ lines_read = 0
    /\ line = BlankLine
    /\ \E args \in OneShotArgs : job = Object(args)
    /\ locals = NoLocals
    /\ result = <<>>
    /\ exception = <<>>
    /\ written = <<>>
    /\ job_calls = <<>>
    /\ order = <<>>

Exists(path, answer) == [cap |-> "exists", path |-> path, answer |-> answer]

\* a faulty variant of the error exits: the exit code is 0
OneShotFailExitsZero(records, percent, message) ==
    /\ written' = written \o records \o <<ProgressRecord("error", percent, message)>>
    /\ pc' = "terminated"
    /\ exit_code' = "0"

\* log_progress("error", percent, message); sys.exit(1)
OneShotFail(records, percent, message) ==
    /\ written' = written \o records \o <<ProgressRecord("error", percent, message)>>
    /\ pc' = "terminated"
    /\ exit_code' = "1"

\* an exception leaves a stage, having written `records`
OneShotRaise(records, message) ==
    /\ written' = written \o records
    /\ exception' = <<message>>
    /\ pc' = "one_shot_exception"
    /\ UNCHANGED exit_code

\* lines 178-186: the input file is looked for, the pipeline starts
OneShotMain ==
    /\ pc = "one_shot_main"
    /\ LET input_path == job.fields.input_audio
           found == input_path \in ReadablePaths
       IN  /\ job_calls' = Append(job_calls, Exists(input_path, found))
           /\ IF ~found
              THEN OneShotFail(<<>>, 0, <<"Archivo de entrada no encontrado: ", input_path>>)
              ELSE /\ written' = Append(written, ProgressRecord("start", 0,
                                            <<"Iniciando pipeline de traduccion...">>))
                   /\ pc' = "one_shot_transcribe_audio"
                   /\ UNCHANGED exit_code
    /\ UNCHANGED <<handles, tts_instance, platform, lines_read, line, job, locals, result,
                   exception, order>>

\* the progress records of the loop over n segments (lines 59-62)
OneShotSegments(n) ==
    [i \in 1..n |-> ProgressRecord("stt", 20 + (((i - 1) * 20) \div n),
                        <<"Procesando segmento ", ToString(i), "/", ToString(n)>>)]

\* transcribe_audio (lines 32-71) and the test of its result (lines 191-193)
OneShotTranscribeAudio ==
    /\ pc = "one_shot_transcribe_audio"
    /\ LET loading == ProgressRecord("stt", 10, <<"Cargando modelo de transcripcion...">>)
           running == ProgressRecord("stt", 20, <<"Transcribiendo audio...">>)
           call == [cap |-> "stt", handle |-> "WhisperModel(tiny)",
                    input_path |-> job.fields.input_audio, language |-> "en"]
       IN  \/ /\ OneShotRaise(<<loading>>, <<"No module named 'faster_whisper'">>)
              /\ UNCHANGED <<locals, job_calls>>
           \/ /\ OneShotRaise(<<loading, running>>, <<"transcription failed">>)
              /\ job_calls' = Append(job_calls, call)
              /\ UNCHANGED locals
           \/ \E n \in 0..MaxSegments, text \in TranscriptTexts :
                 /\ n = 0 => text = <<>>
                 /\ job_calls' = Append(job_calls, call)
                 /\ locals' = [locals EXCEPT !.transcription.text = text]
                 /\ UNCHANGED exception
                 /\ LET records == <<loading, running>> \o OneShotSegments(n) \o
                                   <<ProgressRecord("stt", 40,
                                         <<"Transcripcion completada: ",
                                           ToString(StrLen(text)), " caracteres">>)>>
                    IN  IF text = <<>>
                        THEN OneShotFail(records, 40, <<"No se pudo transcribir el audio">>)
                        ELSE /\ written' = written \o records
                             /\ pc' = "one_shot_translate_text"
                             /\ UNCHANGED exit_code
    /\ UNCHANGED <<handles, tts_instance, platform, lines_read, line, job, result, order>>

\* what the translation pipeline of the script answers on one chunk
OneShotTranslation(chunk, mode) ==
    IF mode = "empty" THEN <<>> ELSE Translation(chunk, mode)

\* a faulty variant of lines 112-117: the empty chunks are translated too
RECURSIVE OneShotTranslateLoopAll(_, _, _, _)
OneShotTranslateLoopAll(chunks, i, mode, acc) ==
    IF i = Len(chunks) THEN acc
    ELSE LET chunk == chunks[i + 1]
             call == [cap |-> "translator", handle |-> "pipeline(translation)",
                      chunks |-> <<chunk>>]
             record == ProgressRecord("translation", 50 + ((i * 15) \div Len(chunks)),
                           <<"Traduciendo chunk ", ToString(i + 1), "/",
                             ToString(Len(chunks))>>)
         IN  IF mode = "raise"
             THEN Raised(<<"translation failed">>, acc.progress, Append(acc.calls, call))
             ELSE OneShotTranslateLoopAll(chunks, i + 1, mode,
                      Returned(Append(acc.value, OneShotTranslation(chunk, mode)),
                               Append(acc.progress, record),
                               Append(acc.calls, call)))

\* the loop over the chunks (lines 112-117): an empty chunk is not translated
RECURSIVE OneShotTranslateLoop(_, _, _, _)
OneShotTranslateLoop(chunks, i, mode, acc) ==
    IF i = Len(chunks) THEN acc
    ELSE LET chunk == chunks[i + 1]
             call == [cap |-> "translator", handle |-> "pipeline(translation)",
                      chunks |-> <<chunk>>]
             record == ProgressRecord("translation", 50 + ((i * 15) \div Len(chunks)),
                           <<"Traduciendo chunk ", ToString(i + 1), "/",
                             ToString(Len(chunks))>>)
         IN  IF chunk # <<>> /\ mode = "raise"
             THEN Raised(<<"translation failed">>, acc.progress, Append(acc.calls, call))
             ELSE OneShotTranslateLoop(chunks, i + 1, mode,
                      Returned(IF chunk # <<>>
                               THEN Append(acc.value, OneShotTranslation(chunk, mode))
                               ELSE acc.value,
                               Append(acc.progress, record),
                               IF chunk # <<>> THEN Append(acc.calls, call) ELSE acc.calls))

\* translate_text(text_en) of the script (lines 73-125) once the model is loaded
OneShotTranslateText(text_en, mode) ==
    LET first == <<ProgressRecord("translation", 45, <<"Cargando modelo de traduccion...">>),
                   ProgressRecord("translation", 50, <<"Traduciendo texto...">>)>>
        chunks == ChunkLoop(SplitSentences(text_en), MaxChunkLength, <<>>, <<>>)
        loop == OneShotTranslateLoop(chunks, 0, mode, Returned(<<>>, first, <<>>))
    IN  IF loop.raised THEN loop
        ELSE LET text_es == JoinSpace(loop.value)
             IN  Returned(text_es,
                     Append(loop.progress, ProgressRecord("translation", 65,
                         <<"Traduccion completada: ", ToString(StrLen(text_es)),
                           " caracteres">>)),
                     loop.calls)

\* translate_text and the test of its result (lines 196-200)
OneShotTranslate ==
    /\ pc = "one_shot_translate_text"
    /\ \/ /\ OneShotRaise(<<ProgressRecord("translation", 45,
                               <<"Cargando modelo de traduccion...">>)>>,
                          <<"cannot load the translation model">>)
          /\ UNCHANGED <<locals, job_calls>>
       \/ \E mode \in {"raise", "short", "long", "empty"} :
             LET r == OneShotTranslateText(locals.transcription.text, mode)
             IN  /\ job_calls' = job_calls \o r.calls
                 /\ IF r.raised
                    THEN OneShotRaise(r.progress, r.error) /\ UNCHANGED locals
                    ELSE /\ locals' = [locals EXCEPT !.text_es = r.value]
                         /\ UNCHANGED exception
                         /\ IF r.value = <<>>
                            THEN OneShotFail(r.progress, 65, <<"No se pudo traducir el texto">>)
                            ELSE /\ written' = written \o r.progress
                                 /\ pc' = "one_shot_synthesize_speech"
                                 /\ UNCHANGED exit_code
    /\ UNCHANGED <<handles, tts_instance, platform, lines_read, line, job, result, order>>

\* synthesize_speech (lines 127-163), the test of the output file and the
\* success record (lines 203-220)
OneShotSynthesize ==
    /\ pc = "one_shot_synthesize_speech"
    /\ LET output_path == job.fields.output_audio
           call == [cap |-> "synthesize", text |-> locals.text_es,
                    output_path |-> output_path, voice |-> job.fields.voice]
           r70 == ProgressRecord("tts", 70, <<"Iniciando sintesis de voz...">>)
           r75 == ProgressRecord("tts", 75, <<"Generando audio con voz ",
                                               job.fields.voice, "...">>)
           r90 == ProgressRecord("tts", 90, <<"Convirtiendo formato de audio...">>)
           r98 == ProgressRecord("tts", 98, <<"Audio generado correctamente">>)
       IN  \/ /\ OneShotRaise(<<r70>>, <<"No module named 'edge_tts'">>)
              /\ UNCHANGED <<job_calls, result>>
           \/ /\ OneShotRaise(<<r70, r75>>, <<"synthesis failed">>)
              /\ job_calls' = Append(job_calls, call)
              /\ UNCHANGED result
           \/ /\ OneShotRaise(<<r70, r75, r90>>, <<"cannot convert the audio">>)
              /\ job_calls' = Append(job_calls, call)
              /\ UNCHANGED result
           \/ \E found \in BOOLEAN :
                 /\ job_calls' = job_calls \o <<call, Exists(output_path, found)>>
                 /\ UNCHANGED exception
                 /\ IF ~found
                    THEN /\ OneShotFail(<<r70, r75, r90, r98>>, 99,
                                        <<"No se genero el archivo de salida">>)
                         /\ UNCHANGED result
                    ELSE LET success == [success |-> TRUE,
                                         input |-> job.fields.input_audio,
                                         output |-> output_path,
                                         text_en_length |-> StrLen(locals.transcription.text),
                                         text_es_length |-> StrLen(locals.text_es)]
                         IN  /\ written' = written \o <<r70, r75, r90, r98,
                                     ProgressRecord("done", 100,
                                         <<"Pipeline completado exitosamente">>),
                                     success>>
                             /\ result' = <<success>>
                             /\ pc' = "terminated"
                             /\ exit_code' = "0"
    /\ UNCHANGED <<handles, tts_instance, platform, lines_read, line, job, locals, order>>

\* lines 222-224: the except clause of main
OneShotOnException ==
    /\ pc = "one_shot_exception"
    /\ OneShotFail(<<>>, -1, exception[1])
    /\ UNCHANGED <<handles, tts_instance, platform, io>>

OneShotNext ==
    \/ OneShotMain
    \/ OneShotTranscribeAudio
    \/ OneShotTranslate
    \/ OneShotSynthesize
    \/ OneShotOnException

OneShotSpec == OneShotInit /\ [][OneShotNext]_vars

(***************************************************************************)
(* C31: the one-shot pipeline writes its success record only as the record *)
(* after the done/100 progress record, and only when the transcription and *)
(* the translation are not empty, the synthesis has completed and the      *)
(* output file exists.  Otherwise it writes no success record, its last    *)
(* record is a progress record of stage "error" and it exits with code 1;  *)
(* the percent of that record is -1 exactly when an exception left a stage.*)
(***************************************************************************)
SuccessWritten == \E i \in DOMAIN written : IsResult(written[i])

C31_OneShotOutcome ==
    /\ SuccessWritten =>
          LET n == Len(written) IN
          /\ pc = "terminated" /\ exit_code = "0"
          /\ n >= 2 /\ IsResult(written[n]) /\ written[n].success
          /\ \A i \in 1..(n - 1) : IsProgress(written[i])
          /\ written[n - 1].stage = "done" /\ written[n - 1].percent = 100
          /\ locals.transcription.text # <<>>
          /\ locals.text_es # <<>>
          /\ StepReturned("tts", 98)
          /\ job_calls[Len(job_calls)] = Exists(job.fields.output_audio, TRUE)
          /\ exception = <<>>
    /\ (pc = "terminated" /\ ~SuccessWritten) =>
          LET last == written[Len(written)] IN
          /\ written # <<>>
          /\ IsProgress(last) /\ last.stage = "error"
          /\ exit_code = "1"
          /\ last.percent = -1 <=> exception # <<>>
    /\ pc # "terminated" =>
          /\ exit_code = "running"
          /\ \A i \in DOMAIN written : IsProgress(written[i]) /\ written[i].stage # "error"

\* the synthesis has completed and the output file is not there
C31_Witness ==
    /\ pc = "terminated"
    /\ StepReturned("tts", 98)
    /\ job_calls[Len(job_calls)] = Exists(job.fields.output_audio, FALSE)
    /\ written[Len(written)].percent = 99
    /\ exit_code = "1"


(***************************************************************************)
(* C32: with a translation model that answers each chunk by itself and in  *)
(* the order of the batch, translate_text of the worker, which sends the   *)
(* chunks as one batch, and translate_text of the one-shot script, which   *)
(* sends them one by one, send the same chunks in the same order and       *)
(* return the same text.                                                   *)
(***************************************************************************)
\* the chunks the one-shot script sends, call after call
SentOneByOne(calls) == [i \in DOMAIN calls |-> calls[i].chunks[1]]

C32_BatchAndLoopAgree ==
    TranslatedText =>
        \E mode \in {"short", "long"} :
            LET one_shot == OneShotTranslateText(Field("text", <<>>), mode)
                batch == translate_text(Field("text", <<>>), mode)
            IN  /\ ~batch.raised /\ ~one_shot.raised
                /\ result[1].result.translated = batch.value
                /\ one_shot.value = batch.value
                /\ SentOneByOne(one_shot.calls) = SentToTranslator

\* a text of several chunks, one of them long, was translated by the batch
C32_Witness ==
    /\ TranslatedText
    /\ Len(SentToTranslator) = 3
    /\ \E i \in 1..3 : StrLen(SentToTranslator[i]) > MaxChunkLength
    /\ Len(OneShotTranslateText(Field("text", <<>>), "short").calls) = 3


(***************************************************************************)
(* C33: in every successful result of a generate_script or                 *)
(* generate_podcast job, article_count is the number of articles the       *)
(* script was built from: min(n, 5) for n articles in the job.             *)
(***************************************************************************)
C33_ArticleCountIsUsed ==
    (pc = "print_result" /\ ScriptLine /\ result[1].success) =>
        LET n == Len(Field("articles", <<>>))
        IN  /\ result[1].result.article_count = Len(TitlesIn(result[1].result.script))
            /\ result[1].result.article_count = Min(n, 5)


(***************************************************************************)
(* C34: every TextToSpeech that get_tts returns has been through a load()  *)
(* that did not raise: it has an engine, a Piper voice or an espeak        *)
(* command.  An instance whose load() raised in the first call is not      *)
(* returned by a later call.                                               *)
(***************************************************************************)
IsLoaded(inst) == inst.engine \/ inst.piper_voice \/ inst.espeak_cmd

C34_ReturnedInstanceIsLoaded ==
    \A i \in DOMAIN job_calls :
        (job_calls[i].cap = "get_tts" /\ ~job_calls[i].raised) =>
            IsLoaded(job_calls[i].returned[1])


(***************************************************************************)
(* C35: for a translate or generate_podcast job, the voice the synthesis   *)
(* engine speaks with is normalize_voice of the job's `voice` field, the   *)
(* default voice when the job has none, whatever voice was asked for at    *)
(* startup or by earlier jobs.                                             *)
(***************************************************************************)
C35_EngineSpeaksJobVoice ==
    \A i \in DOMAIN job_calls :
        job_calls[i].cap = "tts" =>
            job_calls[i].voice = normalize_voice(Field("voice", DEFAULT_VOICE))


(***************************************************************************)
(* C36: a translate or generate_podcast job answers success = true only    *)
(* when its call of the synthesis returned true; a synthesis call that     *)
(* ended any other way gives a result with success = false.  The synthesis *)
(* of tts_utils returns True or raises: it never returns False.            *)
(***************************************************************************)
SynthesisLine == WellFormed /\ LineType \in {"translate", "generate_podcast"}

Rejected(fields) ==
    LET type == Get(fields, "type", None) IN
    \/ type \in {"generate_script", "generate_podcast"} /\ Get(fields, "articles", <<>>) = <<>>
    \/ type = "generate_podcast" /\ Falsy(fields, "output_path", "")
    \/ type = "translate_text" /\ Get(fields, "text", <<>>) = <<>>
    \/ type \notin KnownTypes

C37_RejectedJobWritesResultOnly ==
    (WellFormed /\ Rejected(line.value.fields)) =>
        /\ pc \in {"process_job", "print_result", "ready", "terminated"}
        /\ job_calls = <<>>
        /\ \A i \in DOMAIN written : ~IsProgress(written[i])
        /\ pc \in {"process_job", "print_result"} => written = <<>>
        /\ pc \in {"ready", "terminated"} =>
              /\ written = result
              /\ Len(result) = 1
              /\ ~result[1].success

\* a generate_podcast job with articles and no output_path has been answered
C37_Witness ==
    /\ WellFormed
    /\ LineType = "generate_podcast"
    /\ Field("articles", <<>>) # <<>>
    /\ Falsy(job.fields, "output_path", "")
    /\ pc = "ready"
    /\ written = <<Failure(<<"No se proporciono ruta de salida">>)>>


(***************************************************************************)
(* C38: an empty or whitespace-only line is skipped.  Reading it writes    *)
(* no record, calls no capability and leaves the worker Ready; so whenever *)
(* the worker is Ready or has ended, it has written as many result records *)
(* as it has read non-blank lines, and one less while a job is under way.  *)
(***************************************************************************)
ResultRecords == Cardinality({i \in DOMAIN order : order[i][1] = "result"})

BlankLineRead == lines_read' = lines_read + 1 /\ line'.text = "blank"

C38_BlankLineSkipped ==
    /\ [][BlankLineRead =>
            /\ pc = "ready" /\ pc' = "ready"
            /\ written' = <<>>
            /\ job_calls' = <<>>
            /\ UNCHANGED <<order, job, exception, exit_code, handles, tts_instance>>]_vars
    /\ [](/\ pc \in {"ready", "terminated"} => ResultRecords = NonBlankRead
          /\ pc \in BusyPcs => ResultRecords + 1 = NonBlankRead)

\* one of three lines read was blank, the last was not: two results for three
\* lines
C38_Witness ==
    /\ pc = "ready"
    /\ lines_read = 3
    /\ NonBlankRead = 2
    /\ ResultRecords = 2
    /\ order = <<<<"line", 1>>, <<"result", 1>>, <<"line", 2>>, <<"result", 2>>>>
    /\ written # <<>>


(***************************************************************************)
(* The worker as a running process.  main() is one sequential thread, so   *)
(* the statement it stands at is executed: each action of the loader and   *)
(* of the loop is taken when it stays possible.  The input is finite: at   *)
(* most MaxLines lines, then its end.  The four steps of a job's recipe    *)
(* call the capabilities; that such a call ends, by returning or by        *)
(* raising, is assumed, and said by the step's effect on pc: main() does   *)
(* not stand at the step for ever.                                         *)
(***************************************************************************)
RecipePcs ==
    {"transcribe_audio", "translate_text", "generate_podcast_script", "synthesize_speech"}

\* the step at position p ends: control goes elsewhere
StepEnds(p) == pc = p /\ pc' \in (LoadingPcs \cup LoopPcs \cup {"terminated"}) \ {p}

FairSpec ==
    /\ Spec
    /\ WF_vars(LoadWhisper) /\ WF_vars(LoadWhisperEn) /\ WF_vars(LoadTranslator)
    /\ WF_vars(LoadTextGenerator) /\ WF_vars(LoadTTS)
    /\ WF_vars(ReadLine) /\ WF_vars(EndOfInput)
    /\ WF_vars(OnJSONDecodeError) /\ WF_vars(OnException)
    /\ WF_vars(ProcessJob) /\ WF_vars(OnJobException) /\ WF_vars(PrintResult)
    /\ \A p \in RecipePcs : WF_pc(StepEnds(p))

(***************************************************************************)
(* C39: when stdin ends while the worker is Ready, no shutdown job having  *)
(* been received, the loop ends and the worker terminates with exit code 0 *)
(* and writes no further record; with a finite input and capability calls  *)
(* that end, the worker always eventually terminates.                      *)
(***************************************************************************)
C39_EndOfInputTerminates ==
    /\ [](pc = "ready" /\ WellFormed => LineType # "shutdown")
    /\ [][(pc = "ready" /\ pc' = "terminated") =>
             /\ exit_code' = "0"
             /\ UNCHANGED <<written, order, job_calls, result, lines_read, line>>]_vars
    /\ [][pc = "terminated" => UNCHANGED vars]_vars
    /\ <>(pc = "terminated")

\* stdin ended after one ping job: the worker has ended with code 0 and the
\* result of the ping is the last record it wrote
C39_Witness ==
    /\ pc = "terminated"
    /\ exit_code = "0"
    /\ lines_read = 1
    /\ WellFormed
    /\ LineType = "ping"
    /\ written = <<Success("pong")>>


====
